---- MODULE Spec2Model ----
(***************************************************************************)
(* Verification model of PuriPuly-heart: the managed STT session           *)
(* controller (core/stt/controller.py), the audio ring buffer              *)
(* (core/audio/ring_buffer.py), the orchestrator hub                       *)
(* (core/orchestrator/hub.py) and the smart OSC queue                      *)
(* (core/osc/smart_queue.py).                                              *)
(*                                                                         *)
(* Coroutines are modelled as tasks with a program counter; one action     *)
(* runs a task from one suspension point (await) to the next.  Audio       *)
(* samples are numbered 1, 2, 3, ... in the order they are produced, so    *)
(* that every sample is identifiable.  Time is an integer number of ticks. *)
(***************************************************************************)
EXTENDS Integers, Sequences, FiniteSets, TLC

(***************************************************************************)
(* Bounds of the model                                                     *)
(***************************************************************************)
MaxSessions == 2
\* the sessions a run needs for two resets of one session to overlap
MaxOverlapSessions == 3
MaxVadEvents == 3
MaxUtterances == 2
MaxBackendEvents == 2
MaxFailures == 1
MaxEnqueues == 3
MaxSendFailures == 1
MaxTime == 5
MaxHubInputs == 2

(***************************************************************************)
(* Program constants, scaled to ticks / samples                            *)
(***************************************************************************)
\* ManagedSTTProvider.reset_deadline_s, in ticks
ResetDeadline == 1
\* capacity of the bridging ring: int(sample_rate_hz * bridging_ms / 1000)
RingCapacity == 4
\* VAD chunk_samples: the length of every SpeechStart/SpeechChunk chunk
ChunkLen == 2
\* length of the pre-roll carried by a SpeechStart
PreRollLen == 1

\* SmartOscQueue.max_chars, in characters
max_chars == 5
\* SmartOscQueue.cooldown_s, in ticks
cooldown_s == 2
\* SmartOscQueue.ttl_s, in ticks
ttl_s == 3

None == 0

(***************************************************************************)
(* Sequence helpers                                                        *)
(***************************************************************************)
Min2(a, b) == IF a <= b THEN a ELSE b
Max2(a, b) == IF a >= b THEN a ELSE b
LastN(s, n) == SubSeq(s, Len(s) - Min2(n, Len(s)) + 1, Len(s))
FirstN(s, n) == SubSeq(s, 1, Min2(n, Len(s)))
IsPrefix(p, s) == Len(p) <= Len(s) /\ SubSeq(s, 1, Len(p)) = p
Range(s) == {s[i] : i \in 1..Len(s)}
\* the samples numbered from+1 .. from+n
Samples(from, n) == [i \in 1..n |-> from + i]

(***************************************************************************)
(* RingBufferF32 (core/audio/ring_buffer.py).  The buffer is a sequence of *)
(* capacity_samples cells (index 1 is Python index 0); 0 is the zero       *)
(* sample the constructor fills the buffer with.                           *)
(***************************************************************************)
RingInit(cap) ==
    [capacity_samples |-> cap, buffer |-> [i \in 1..cap |-> 0],
     write_pos |-> 0, filled |-> FALSE]

\* buffer[lo:lo+len(src)] = src, Python slice assignment (lo is 0-based)
RingWrite(buf, lo, src) ==
    [i \in 1..Len(buf) |->
        IF i > lo /\ i <= lo + Len(src) THEN src[i - lo] ELSE buf[i]]

RingAppend(r, samples) ==
    LET cap == r.capacity_samples
        size == Len(samples)
        end == r.write_pos + size
    IN  IF size = 0 THEN r
        ELSE IF size >= cap
        THEN [r EXCEPT !.buffer = LastN(samples, cap), !.write_pos = 0, !.filled = TRUE]
        ELSE LET first == cap - r.write_pos
                 buf == IF end <= cap
                        THEN RingWrite(r.buffer, r.write_pos, samples)
                        ELSE RingWrite(RingWrite(r.buffer, r.write_pos, FirstN(samples, first)),
                                       0, SubSeq(samples, first + 1, size))
                 wp == end % cap
             IN  [r EXCEPT !.buffer = buf, !.write_pos = wp,
                           !.filled = IF wp = 0 THEN TRUE ELSE r.filled]

RingGetLastSamples(r, count) ==
    LET cap == r.capacity_samples
        available == IF r.filled THEN cap ELSE r.write_pos
        cnt == Min2(count, available)
        start == (r.write_pos - cnt) % cap
    IN  IF count <= 0 \/ cnt = 0 THEN <<>>
        ELSE IF start < r.write_pos \/ ~r.filled
        THEN SubSeq(r.buffer, start + 1, start + cnt)
        ELSE LET tail == SubSeq(r.buffer, start + 1, cap)
             IN  tail \o SubSeq(r.buffer, 1, cnt - Len(tail))

(***************************************************************************)
(* State of the managed STT controller and of its tasks                    *)
(***************************************************************************)
VARIABLES
    state,                        \* _state
    active_session,               \* _active_session (a session number, or None)
    session_started_at,           \* _session_started_at (-1 is Python None)
    consumer_task,                \* _consumer_task (the session it consumes, or None)
    draining,                     \* _draining: the drain tasks (indices of drains)
    events,                       \* everything put on _events, in order
    active_utterance_id,          \* _active_utterance_id
    pending_final_utterance_id,   \* _pending_final_utterance_id
    audio_ring,                   \* _audio_ring
    now,                          \* clock.now()
    sessions,                     \* the sessions the backend has opened, in order
    drains,                       \* the _drain_and_close tasks ever created
    timer,                        \* the task behind _reset_timer
    vad,                          \* the caller of handle_vad_event
    in_speech,                    \* the utterance the VAD gate is in (or None)
    utterances,                   \* number of utterance ids minted so far
    vad_calls,                    \* number of handle_vad_event calls so far
    backend_events,               \* number of backend transcript events so far
    fed,                          \* history: every sample appended to the ring
    resets,                       \* history: the bridging resets carried out
    failures,                     \* history: number of failed backend calls
    closer                        \* the caller of close()

sttVars == <<state, active_session, session_started_at, consumer_task, draining,
             events, active_utterance_id, pending_final_utterance_id, audio_ring,
             sessions, drains, timer, vad, in_speech, utterances, vad_calls,
             backend_events, fed, resets, failures, closer>>

VARIABLES
    pending,                      \* SmartOscQueue._pending
    next_send_at,                 \* SmartOscQueue._next_send_at
    sent,                         \* history: the send_chatbox calls, in order
    enqueued,                     \* history: the messages given to enqueue
    send_failures                 \* history: number of send_chatbox calls that raised

oscVars == <<pending, next_send_at, sent, enqueued, send_failures>>

VARIABLES
    llm,                          \* ClientHub.llm is not None
    translation_enabled,          \* ClientHub.translation_enabled
    fallback_transcript_only,     \* ClientHub.fallback_transcript_only
    hub_read,                     \* events the _run_stt_event_loop has taken
    bundles,                      \* ClientHub._utterances
    translation_tasks,            \* ClientHub._translation_tasks (id -> task)
    tasks,                        \* the _translate_and_enqueue tasks ever created
    ui_events,                    \* everything put on ui_events, in order
    llm_calls,                    \* history: the llm.translate calls, in order
    submits                       \* history: number of submit_text calls

hubVars == <<llm, translation_enabled, fallback_transcript_only, hub_read, bundles,
             translation_tasks, tasks, ui_events, llm_calls, submits>>

VARIABLES
    concurrency_limit,            \* settings.llm.concurrency_limit
    sem_value,                    \* Semaphore._value of SemaphoreLLMProvider.semaphore
    sem_waiters,                  \* Semaphore._waiters: the futures of the waiting calls
    sem_calls                     \* the SemaphoreLLMProvider.translate calls ever made

semVars == <<concurrency_limit, sem_value, sem_waiters, sem_calls>>

\* the state of the parts that are also modelled on their own
VARIABLES
    hub_stop                      \* the caller of ClientHub.stop(), and the hub's own tasks

VARIABLES
    ring_buffer,                  \* a RingBufferF32: VadGating._ring
    ring_appended,                \* every sample ever passed to ring.append(), in order
    ring_got                      \* the last get_last_samples() call: its count and result

ringVars == <<ring_buffer, ring_appended, ring_got>>

VARIABLES
    hangover_chunks,              \* VadGating.hangover_chunks
    gate_in_speech,               \* VadGating._in_speech
    gate_utterance_id,            \* VadGating._utterance_id
    gate_silence_run,             \* VadGating._silence_run
    gate_uuids,                   \* the number of uuid4() values drawn so far
    gate_chunks,                  \* the probability of every chunk passed to process_chunk()
    gate_events                   \* every event process_chunk() returned, in order

gateVars == <<hangover_chunks, gate_in_speech, gate_utterance_id, gate_silence_run,
              gate_uuids, gate_chunks, gate_events>>

VARIABLES
    source_language,              \* ClientHub.source_language
    target_language,              \* ClientHub.target_language
    translation_history,          \* ClientHub._translation_history
    llm_context                   \* the last context _translate_and_enqueue computed

contextVars == <<source_language, target_language, translation_history, llm_context>>

VARIABLES
    session_limit                 \* the number of sessions the backend is asked for in a run

unitVars == <<semVars, hub_stop, ringVars, gateVars, contextVars, session_limit>>

vars == <<now, sttVars, oscVars, hubVars, unitVars>>

(***************************************************************************)
(* Records                                                                 *)
(***************************************************************************)
NewSession ==
    [audio |-> <<>>, stopped |-> FALSE, closed |-> FALSE,
     consumer |-> "running", drain_started |-> FALSE]

StateEvent(s) == [type |-> "state", state |-> s, id |-> None, text |-> <<>>]
ErrorEvent(what) == [type |-> "error", state |-> what, id |-> None, text |-> <<>>]
TranscriptEvent(is_final, id, text) ==
    [type |-> IF is_final THEN "final" ELSE "partial", state |-> "", id |-> id,
     text |-> text]

NoEv == [type |-> "none", id |-> None, pre |-> <<>>, chunk |-> <<>>]
IdleVad ==
    [pc |-> "idle", ev |-> NoEv, old_session |-> None, old_consumer |-> None,
     bridging |-> <<>>, new |-> None, target |-> None, reset |-> 0, raised |-> FALSE]
IdleCloser == [pc |-> "none", session |-> None]
IdleTimer ==
    [pc |-> "none", due |-> 0, old_session |-> None, old_consumer |-> None,
     bridging |-> <<>>, reset |-> 0]

SamplesPerCall == PreRollLen + ChunkLen

InitStt ==
    /\ state = "DISCONNECTED"
    /\ active_session = None
    /\ session_started_at = -1
    /\ consumer_task = None
    /\ draining = {}
    /\ events = <<>>
    /\ active_utterance_id = None
    /\ pending_final_utterance_id = None
    /\ audio_ring = RingInit(RingCapacity)
    /\ now = 0
    /\ sessions = <<>>
    /\ drains = <<>>
    /\ timer = IdleTimer
    /\ vad = IdleVad
    /\ in_speech = None
    /\ utterances = 0
    /\ vad_calls = 0
    /\ backend_events = 0
    /\ fed = <<>>
    /\ resets = <<>>
    /\ failures = 0
    /\ closer = IdleCloser

(***************************************************************************)
(* Helpers of the controller                                               *)
(***************************************************************************)
\* _set_state: an STTSessionStateEvent is put only when the state changes
SetStateEvents(log, cur, new) == IF cur = new THEN log ELSE Append(log, StateEvent(new))

\* _maybe_reset: the deadline test
DeadlineElapsed(started, t) == started # -1 /\ t - started >= ResetDeadline

\* the bridging audio _reset_with_bridging takes from the ring
BridgingAudio(ring) == RingGetLastSamples(ring, ring.capacity_samples)

\* the model opens at most session_limit sessions: an open may start only if
\* there is room for it and for the opens already in flight
OpensInFlight ==
    (IF timer.pc = "open" THEN 1 ELSE 0)
    + (IF vad.pc \in {"ensure_open", "bridge_open"} THEN 1 ELSE 0)
CanOpen == Len(sessions) + OpensInFlight < session_limit
MayFail == failures < MaxFailures

\* task.cancel() on the timer task while it is suspended: the CancelledError
\* ends it (_reset_timer_task swallows it); if it was inside
\* wait_for(consumer_task), wait_for cancels that consumer as well
CancelTimerSessions(sess) ==
    IF timer.pc = "wait" /\ sess[timer.old_consumer].consumer = "running"
    THEN [sess EXCEPT ![timer.old_consumer].consumer = "cancelled"]
    ELSE sess

\* _schedule_reset_timer: the task that sleeps reset_deadline_s from now
ScheduledTimer == [IdleTimer EXCEPT !.pc = "sleep", !.due = now + ResetDeadline]

NewReset(by) ==
    [by |-> by, old |-> active_session, new |-> None,
     expected |-> LastN(fed, RingCapacity), replay |-> BridgingAudio(audio_ring),
     opened |-> FALSE, done |-> FALSE, handed |-> FALSE]

NewDrain(session, consumer) == [session |-> session, consumer |-> consumer, pc |-> "stop"]

VadReturn(raised) == [IdleVad EXCEPT !.raised = raised]

(***************************************************************************)
(* handle_vad_event: _on_speech_start, _on_speech_chunk, _on_speech_end    *)
(***************************************************************************)
\* _send_audio up to its await: append to the ring, then call send_audio on
\* the active session (RuntimeError if there is none)
BeginSendUnrecorded(v, act) ==
    LET piece == IF v.ev.type = "start" /\ v.pc # "send_pre" THEN v.ev.pre ELSE v.ev.chunk
        nextpc == IF v.ev.type = "start" /\ v.pc # "send_pre" THEN "send_pre" ELSE "send_chunk"
    IN  /\ UNCHANGED <<audio_ring, fed>>
        /\ vad' = IF act = None THEN VadReturn(TRUE)
                  ELSE [v EXCEPT !.pc = nextpc, !.target = act]

BeginSend(v, act) ==
    LET piece == IF v.ev.type = "start" /\ v.pc # "send_pre" THEN v.ev.pre ELSE v.ev.chunk
        nextpc == IF v.ev.type = "start" /\ v.pc # "send_pre" THEN "send_pre" ELSE "send_chunk"
    IN  /\ audio_ring' = RingAppend(audio_ring, piece)
        /\ fed' = fed \o piece
        /\ vad' = IF act = None THEN VadReturn(TRUE)
                  ELSE [v EXCEPT !.pc = nextpc, !.target = act]

\* _ensure_session and _maybe_reset(is_speaking=True) up to the first await
VadEnter(v) ==
    IF active_session = None
    THEN /\ CanOpen
         /\ vad' = [v EXCEPT !.pc = "ensure_open"]
         /\ UNCHANGED <<audio_ring, fed, resets>>
    ELSE IF DeadlineElapsed(session_started_at, now)
    THEN /\ CanOpen
         /\ vad' = [v EXCEPT !.pc = "bridge_open", !.old_session = active_session,
                             !.old_consumer = consumer_task,
                             !.bridging = BridgingAudio(audio_ring),
                             !.reset = Len(resets) + 1]
         /\ resets' = Append(resets, NewReset("vad"))
         /\ UNCHANGED <<audio_ring, fed>>
    ELSE /\ BeginSend(v, active_session)
         /\ UNCHANGED resets

VadSpeechStart ==
    /\ vad.pc = "idle" /\ in_speech = None
    /\ utterances < MaxUtterances /\ vad_calls < MaxVadEvents
    /\ LET id == utterances + 1
           base == vad_calls * SamplesPerCall
           ev == [type |-> "start", id |-> id, pre |-> Samples(base, PreRollLen),
                  chunk |-> Samples(base + PreRollLen, ChunkLen)]
       IN  /\ utterances' = id
           /\ in_speech' = id
           /\ active_utterance_id' = id
           /\ pending_final_utterance_id' = None
           /\ VadEnter([IdleVad EXCEPT !.ev = ev])
    /\ vad_calls' = vad_calls + 1
    /\ UNCHANGED <<state, active_session, session_started_at, consumer_task, draining,
                   events, now, sessions, drains, timer, backend_events, failures>>
    /\ UNCHANGED <<oscVars, hubVars, closer, unitVars>>

VadSpeechChunk ==
    /\ vad.pc = "idle" /\ in_speech # None
    /\ vad_calls < MaxVadEvents
    /\ LET base == vad_calls * SamplesPerCall
           ev == [type |-> "chunk", id |-> in_speech, pre |-> <<>>,
                  chunk |-> Samples(base + PreRollLen, ChunkLen)]
       IN  /\ active_utterance_id' = in_speech
           /\ VadEnter([IdleVad EXCEPT !.ev = ev])
    /\ vad_calls' = vad_calls + 1
    /\ UNCHANGED <<state, active_session, session_started_at, consumer_task, draining,
                   events, pending_final_utterance_id, now, sessions, drains, timer,
                   in_speech, utterances, backend_events, failures>>
    /\ UNCHANGED <<oscVars, hubVars, closer, unitVars>>

\* _ensure_session: open_session returns
VadEnsureOpenDone ==
    /\ vad.pc = "ensure_open"
    /\ LET s == Len(sessions) + 1
       IN  /\ sessions' = Append(CancelTimerSessions(sessions), NewSession)
           /\ active_session' = s
           /\ session_started_at' = now
           /\ consumer_task' = s
           /\ timer' = ScheduledTimer
           /\ events' = SetStateEvents(events, state, "STREAMING")
           /\ state' = "STREAMING"
           /\ BeginSend(vad, s)
    /\ UNCHANGED <<draining, active_utterance_id, pending_final_utterance_id, now, drains,
                   in_speech, utterances, vad_calls, backend_events, resets, failures>>
    /\ UNCHANGED <<oscVars, hubVars, closer, unitVars>>

\* _ensure_session: open_session raises; an STTErrorEvent is put and the
\* exception is raised to the caller of handle_vad_event
VadEnsureOpenFail ==
    /\ vad.pc = "ensure_open" /\ MayFail
    /\ failures' = failures + 1
    /\ events' = Append(events, ErrorEvent("open"))
    /\ vad' = VadReturn(TRUE)
    /\ UNCHANGED <<state, active_session, session_started_at, consumer_task, draining,
                   active_utterance_id, pending_final_utterance_id, audio_ring, now,
                   sessions, drains, timer, in_speech, utterances, vad_calls,
                   backend_events, fed, resets>>
    /\ UNCHANGED <<oscVars, hubVars, closer, unitVars>>

\* _reset_with_bridging: open_session returns
VadBridgeOpenDone ==
    /\ vad.pc = "bridge_open"
    /\ LET s == Len(sessions) + 1
       IN  /\ sessions' = Append(CancelTimerSessions(sessions), NewSession)
           /\ active_session' = s
           /\ session_started_at' = now
           /\ consumer_task' = s
           /\ timer' = ScheduledTimer
           /\ events' = SetStateEvents(events, state, "STREAMING")
           /\ state' = "STREAMING"
           /\ vad' = [vad EXCEPT !.pc = "bridge_send", !.new = s]
           /\ resets' = [resets EXCEPT ![vad.reset].new = s, ![vad.reset].opened = TRUE]
    /\ UNCHANGED <<draining, active_utterance_id, pending_final_utterance_id, audio_ring,
                   now, drains, in_speech, utterances, vad_calls, backend_events, fed,
                   failures>>
    /\ UNCHANGED <<oscVars, hubVars, closer, unitVars>>

\* _reset_with_bridging: open_session raises; nothing catches the exception
VadBridgeOpenFail ==
    /\ vad.pc = "bridge_open" /\ MayFail
    /\ failures' = failures + 1
    /\ vad' = VadReturn(TRUE)
    /\ resets' = [resets EXCEPT ![vad.reset].done = TRUE]
    /\ UNCHANGED <<state, active_session, session_started_at, consumer_task, draining,
                   events, active_utterance_id, pending_final_utterance_id, audio_ring,
                   now, sessions, drains, timer, in_speech, utterances, vad_calls,
                   backend_events, fed>>
    /\ UNCHANGED <<oscVars, hubVars, closer, unitVars>>

\* _reset_with_bridging: new_session.send_audio(bridging audio) returns; then
\* the old session is handed to a drain task
VadBridgeSendDone ==
    /\ vad.pc = "bridge_send"
    /\ LET handed == vad.old_session # None /\ vad.old_consumer # None
           bridged == [sessions EXCEPT ![vad.new].audio = @ \o vad.bridging]
       IN  /\ sessions' = IF handed
                          THEN [bridged EXCEPT ![vad.old_session].drain_started = TRUE]
                          ELSE bridged
           /\ drains' = IF handed
                        THEN Append(drains, NewDrain(vad.old_session, vad.old_consumer))
                        ELSE drains
           /\ draining' = IF handed THEN draining \cup {Len(drains) + 1} ELSE draining
           /\ resets' = [resets EXCEPT ![vad.reset].done = TRUE,
                                       ![vad.reset].handed = handed]
           /\ BeginSend(vad, active_session)
    /\ UNCHANGED <<state, active_session, session_started_at, consumer_task, events,
                   active_utterance_id, pending_final_utterance_id, now, timer,
                   in_speech, utterances, vad_calls, backend_events, failures>>
    /\ UNCHANGED <<oscVars, hubVars, closer, unitVars>>

\* _reset_with_bridging: new_session.send_audio raises; the exception leaves
\* handle_vad_event before the drain task is created
VadBridgeSendFail ==
    /\ vad.pc = "bridge_send" /\ MayFail
    /\ failures' = failures + 1
    /\ vad' = VadReturn(TRUE)
    /\ resets' = [resets EXCEPT ![vad.reset].done = TRUE]
    /\ UNCHANGED <<state, active_session, session_started_at, consumer_task, draining,
                   events, active_utterance_id, pending_final_utterance_id, audio_ring,
                   now, sessions, drains, timer, in_speech, utterances, vad_calls,
                   backend_events, fed>>
    /\ UNCHANGED <<oscVars, hubVars, closer, unitVars>>

\* _on_speech_start: send_audio(pre_roll) returns; then the chunk
VadSendPreDone ==
    /\ vad.pc = "send_pre"
    /\ sessions' = [sessions EXCEPT ![vad.target].audio = @ \o vad.ev.pre]
    /\ BeginSend(vad, active_session)
    /\ UNCHANGED <<state, active_session, session_started_at, consumer_task, draining,
                   events, active_utterance_id, pending_final_utterance_id, now, drains,
                   timer, in_speech, utterances, vad_calls, backend_events, resets,
                   failures>>
    /\ UNCHANGED <<oscVars, hubVars, closer, unitVars>>

\* send_audio(chunk) returns: handle_vad_event is over
VadSendChunkDone ==
    /\ vad.pc = "send_chunk"
    /\ sessions' = [sessions EXCEPT ![vad.target].audio = @ \o vad.ev.chunk]
    /\ vad' = VadReturn(FALSE)
    /\ UNCHANGED <<state, active_session, session_started_at, consumer_task, draining,
                   events, active_utterance_id, pending_final_utterance_id, audio_ring,
                   now, drains, timer, in_speech, utterances, vad_calls, backend_events,
                   fed, resets, failures>>
    /\ UNCHANGED <<oscVars, hubVars, closer, unitVars>>

\* _send_audio: send_audio raises; the exception is raised to the caller of
\* handle_vad_event (the samples are in the ring already)
VadSendFail ==
    /\ vad.pc \in {"send_pre", "send_chunk"} /\ MayFail
    /\ failures' = failures + 1
    /\ vad' = VadReturn(TRUE)
    /\ UNCHANGED <<state, active_session, session_started_at, consumer_task, draining,
                   events, active_utterance_id, pending_final_utterance_id, audio_ring,
                   now, sessions, drains, timer, in_speech, utterances, vad_calls,
                   backend_events, fed, resets>>
    /\ UNCHANGED <<oscVars, hubVars, closer, unitVars>>

\* _reset_on_silence up to the await of session.stop(); who is "vad" or "timer"
\* (the caller has checked that a session is active)
SilenceResetStarts == consumer_task # None

\* _on_speech_end up to the await of on_speech_end()
VadSpeechEnd ==
    /\ vad.pc = "idle" /\ in_speech # None
    /\ vad_calls < MaxVadEvents
    /\ active_utterance_id' = IF active_utterance_id = in_speech THEN None
                              ELSE active_utterance_id
    /\ pending_final_utterance_id' = in_speech
    /\ in_speech' = None
    /\ vad_calls' = vad_calls + 1
    /\ vad' = IF active_session # None
              THEN [IdleVad EXCEPT !.pc = "speech_end", !.target = active_session,
                                   !.ev = [NoEv EXCEPT !.type = "end", !.id = in_speech]]
              ELSE VadReturn(FALSE)
    /\ UNCHANGED <<state, active_session, session_started_at, consumer_task, draining,
                   events, audio_ring, now, sessions, drains, timer, utterances,
                   backend_events, fed, resets, failures>>
    /\ UNCHANGED <<oscVars, hubVars, closer, unitVars>>

\* on_speech_end() returns; _maybe_reset(is_speaking=False)
VadSpeechEndDone ==
    /\ vad.pc = "speech_end"
    /\ IF active_session # None /\ DeadlineElapsed(session_started_at, now)
          /\ SilenceResetStarts
       THEN /\ vad' = [vad EXCEPT !.pc = "silence_stop", !.old_session = active_session,
                                  !.old_consumer = consumer_task]
            /\ sessions' = [sessions EXCEPT ![active_session].drain_started = TRUE]
            /\ active_session' = None
            /\ consumer_task' = None
            /\ session_started_at' = -1
            /\ events' = SetStateEvents(events, state, "DRAINING")
            /\ state' = "DRAINING"
       ELSE /\ vad' = VadReturn(FALSE)
            /\ UNCHANGED <<sessions, active_session, consumer_task, session_started_at,
                           events, state>>
    /\ UNCHANGED <<draining, active_utterance_id, pending_final_utterance_id, audio_ring,
                   now, drains, timer, in_speech, utterances, vad_calls, backend_events,
                   fed, resets, failures>>
    /\ UNCHANGED <<oscVars, hubVars, closer, unitVars>>

(***************************************************************************)
(* _drain_and_close, as run inline by _reset_on_silence (from the VAD path *)
(* or from the timer) and by the background drain tasks                    *)
(***************************************************************************)
\* session.stop() (an exception of stop() is suppressed)
DrainStop(sess, s) == [sess EXCEPT ![s].stopped = TRUE]

\* wait_for(consumer_task, drain_timeout_s): "closed" when the consumer has
\* finished; otherwise the consumer is (or already was) cancelled and
\* awaiting it raises CancelledError, which suppress(Exception) lets through
DrainWaitProceeds(sess, c) == sess[c].consumer = "done"
DrainWaitSessions(sess, c) ==
    IF sess[c].consumer = "running" THEN [sess EXCEPT ![c].consumer = "cancelled"] ELSE sess

\* session.close()
DrainClose(sess, s) == [sess EXCEPT ![s].closed = TRUE]

VadSilenceStopDone ==
    /\ vad.pc = "silence_stop"
    /\ sessions' = DrainStop(sessions, vad.old_session)
    /\ vad' = [vad EXCEPT !.pc = "silence_wait"]
    /\ UNCHANGED <<state, active_session, session_started_at, consumer_task, draining,
                   events, active_utterance_id, pending_final_utterance_id, audio_ring,
                   now, drains, timer, in_speech, utterances, vad_calls, backend_events,
                   fed, resets, failures>>
    /\ UNCHANGED <<oscVars, hubVars, closer, unitVars>>

VadSilenceWaitDone ==
    /\ vad.pc = "silence_wait"
    /\ sessions' = DrainWaitSessions(sessions, vad.old_consumer)
    /\ vad' = IF DrainWaitProceeds(sessions, vad.old_consumer)
              THEN [vad EXCEPT !.pc = "silence_close"]
              ELSE VadReturn(TRUE)
    /\ UNCHANGED <<state, active_session, session_started_at, consumer_task, draining,
                   events, active_utterance_id, pending_final_utterance_id, audio_ring,
                   now, drains, timer, in_speech, utterances, vad_calls, backend_events,
                   fed, resets, failures>>
    /\ UNCHANGED <<oscVars, hubVars, closer, unitVars>>

VadSilenceCloseDone ==
    /\ vad.pc = "silence_close"
    /\ sessions' = DrainClose(sessions, vad.old_session)
    /\ events' = SetStateEvents(events, state, "DISCONNECTED")
    /\ state' = "DISCONNECTED"
    /\ vad' = VadReturn(FALSE)
    /\ UNCHANGED <<active_session, session_started_at, consumer_task, draining,
                   active_utterance_id, pending_final_utterance_id, audio_ring,
                   now, drains, timer, in_speech, utterances, vad_calls, backend_events,
                   fed, resets, failures>>
    /\ UNCHANGED <<oscVars, hubVars, closer, unitVars>>

DrainStopDone(d) ==
    /\ d \in 1..Len(drains) /\ drains[d].pc = "stop"
    /\ sessions' = DrainStop(sessions, drains[d].session)
    /\ drains' = [drains EXCEPT ![d].pc = "wait"]
    /\ UNCHANGED <<state, active_session, session_started_at, consumer_task, draining,
                   events, active_utterance_id, pending_final_utterance_id, audio_ring,
                   now, timer, vad, in_speech, utterances, vad_calls, backend_events,
                   fed, resets, failures>>
    /\ UNCHANGED <<oscVars, hubVars, closer, unitVars>>

DrainWaitDone(d) ==
    /\ d \in 1..Len(drains) /\ drains[d].pc = "wait"
    /\ sessions' = DrainWaitSessions(sessions, drains[d].consumer)
    /\ drains' = [drains EXCEPT ![d].pc =
                      IF DrainWaitProceeds(sessions, drains[d].consumer)
                      THEN "close" ELSE "aborted"]
    /\ UNCHANGED <<state, active_session, session_started_at, consumer_task, draining,
                   events, active_utterance_id, pending_final_utterance_id, audio_ring,
                   now, timer, vad, in_speech, utterances, vad_calls, backend_events,
                   fed, resets, failures>>
    /\ UNCHANGED <<oscVars, hubVars, closer, unitVars>>

DrainCloseDone(d) ==
    /\ d \in 1..Len(drains) /\ drains[d].pc = "close"
    /\ sessions' = DrainClose(sessions, drains[d].session)
    /\ drains' = [drains EXCEPT ![d].pc = "done"]
    /\ UNCHANGED <<state, active_session, session_started_at, consumer_task, draining,
                   events, active_utterance_id, pending_final_utterance_id, audio_ring,
                   now, timer, vad, in_speech, utterances, vad_calls, backend_events,
                   fed, resets, failures>>
    /\ UNCHANGED <<oscVars, hubVars, closer, unitVars>>

(***************************************************************************)
(* _reset_timer_task                                                       *)
(***************************************************************************)
\* asyncio.sleep(reset_deadline_s) is over
TimerFire ==
    /\ timer.pc = "sleep" /\ now >= timer.due
    /\ IF active_session = None
       THEN /\ timer' = [IdleTimer EXCEPT !.pc = "done"]
            /\ UNCHANGED <<sessions, active_session, consumer_task, session_started_at,
                           events, state, resets>>
       ELSE IF active_utterance_id # None
       THEN /\ CanOpen
            /\ timer' = [timer EXCEPT !.pc = "open", !.old_session = active_session,
                                      !.old_consumer = consumer_task,
                                      !.bridging = BridgingAudio(audio_ring),
                                      !.reset = Len(resets) + 1]
            /\ resets' = Append(resets, NewReset("timer"))
            /\ UNCHANGED <<sessions, active_session, consumer_task, session_started_at,
                           events, state>>
       ELSE IF SilenceResetStarts
       THEN /\ timer' = [timer EXCEPT !.pc = "stop", !.old_session = active_session,
                                      !.old_consumer = consumer_task]
            /\ sessions' = [sessions EXCEPT ![active_session].drain_started = TRUE]
            /\ active_session' = None
            /\ consumer_task' = None
            /\ session_started_at' = -1
            /\ events' = SetStateEvents(events, state, "DRAINING")
            /\ state' = "DRAINING"
            /\ UNCHANGED resets
       ELSE /\ timer' = [IdleTimer EXCEPT !.pc = "done"]
            /\ UNCHANGED <<sessions, active_session, consumer_task, session_started_at,
                           events, state, resets>>
    /\ UNCHANGED <<draining, active_utterance_id, pending_final_utterance_id, audio_ring,
                   now, drains, vad, in_speech, utterances, vad_calls, backend_events,
                   fed, failures>>
    /\ UNCHANGED <<oscVars, hubVars, closer, unitVars>>

\* The timer's _reset_with_bridging after open_session.  _schedule_reset_timer
\* cancels self._reset_timer, which is the running timer task itself: the
\* CancelledError is delivered at its next suspension.  outcome is
\*   "handed"    send_audio returns without suspending: the drain task is created
\*   "cancelled" send_audio suspends: the task is cancelled there (delivered
\*               tells whether the bridging audio reached the session)
TimerBridgeOutcomes == {"handed", "cancelled"}

TimerBridge(outcome, delivered) ==
    LET s == Len(sessions) + 1
        handed == outcome = "handed" /\ timer.old_session # None /\ timer.old_consumer # None
        opened == Append(sessions,
                    [NewSession EXCEPT !.audio = IF delivered THEN timer.bridging ELSE <<>>])
    IN  /\ sessions' = IF handed
                       THEN [opened EXCEPT ![timer.old_session].drain_started = TRUE]
                       ELSE opened
        /\ active_session' = s
        /\ session_started_at' = now
        /\ consumer_task' = s
        /\ timer' = ScheduledTimer
        /\ events' = SetStateEvents(events, state, "STREAMING")
        /\ state' = "STREAMING"
        /\ drains' = IF handed
                     THEN Append(drains, NewDrain(timer.old_session, timer.old_consumer))
                     ELSE drains
        /\ draining' = IF handed THEN draining \cup {Len(drains) + 1} ELSE draining
        /\ resets' = [resets EXCEPT ![timer.reset].new = s, ![timer.reset].opened = TRUE,
                                    ![timer.reset].done = TRUE,
                                    ![timer.reset].handed = handed]
        /\ failures' = IF outcome = "failed" THEN failures + 1 ELSE failures

TimerOpenDone ==
    /\ timer.pc = "open"
    /\ \E outcome \in TimerBridgeOutcomes, delivered \in BOOLEAN :
         /\ outcome = "handed" => delivered
         /\ TimerBridge(outcome, delivered)
    /\ UNCHANGED <<active_utterance_id, pending_final_utterance_id, audio_ring, now, vad,
                   in_speech, utterances, vad_calls, backend_events, fed>>
    /\ UNCHANGED <<oscVars, hubVars, closer, unitVars>>

\* the timer's open_session raises: the exception ends the timer task
TimerOpenFail ==
    /\ timer.pc = "open" /\ MayFail
    /\ failures' = failures + 1
    /\ timer' = [IdleTimer EXCEPT !.pc = "done"]
    /\ resets' = [resets EXCEPT ![timer.reset].done = TRUE]
    /\ UNCHANGED <<state, active_session, session_started_at, consumer_task, draining,
                   events, active_utterance_id, pending_final_utterance_id, audio_ring,
                   now, sessions, drains, vad, in_speech, utterances, vad_calls,
                   backend_events, fed>>
    /\ UNCHANGED <<oscVars, hubVars, closer, unitVars>>

\* the timer's new_session.send_audio raises: the exception ends the timer
\* task before the drain task is created
TimerBridgeSendFail ==
    /\ timer.pc = "open" /\ MayFail
    /\ TimerBridge("failed", FALSE)
    /\ UNCHANGED <<active_utterance_id, pending_final_utterance_id, audio_ring, now, vad,
                   in_speech, utterances, vad_calls, backend_events, fed>>
    /\ UNCHANGED <<oscVars, hubVars, closer, unitVars>>

TimerStopDone ==
    /\ timer.pc = "stop"
    /\ sessions' = DrainStop(sessions, timer.old_session)
    /\ timer' = [timer EXCEPT !.pc = "wait"]
    /\ UNCHANGED <<state, active_session, session_started_at, consumer_task, draining,
                   events, active_utterance_id, pending_final_utterance_id, audio_ring,
                   now, drains, vad, in_speech, utterances, vad_calls, backend_events,
                   fed, resets, failures>>
    /\ UNCHANGED <<oscVars, hubVars, closer, unitVars>>

TimerWaitDone ==
    /\ timer.pc = "wait"
    /\ sessions' = DrainWaitSessions(sessions, timer.old_consumer)
    /\ timer' = IF DrainWaitProceeds(sessions, timer.old_consumer)
                THEN [timer EXCEPT !.pc = "close"]
                ELSE [IdleTimer EXCEPT !.pc = "done"]
    /\ UNCHANGED <<state, active_session, session_started_at, consumer_task, draining,
                   events, active_utterance_id, pending_final_utterance_id, audio_ring,
                   now, drains, vad, in_speech, utterances, vad_calls, backend_events,
                   fed, resets, failures>>
    /\ UNCHANGED <<oscVars, hubVars, closer, unitVars>>

TimerCloseDone ==
    /\ timer.pc = "close"
    /\ sessions' = DrainClose(sessions, timer.old_session)
    /\ events' = SetStateEvents(events, state, "DISCONNECTED")
    /\ state' = "DISCONNECTED"
    /\ timer' = [IdleTimer EXCEPT !.pc = "done"]
    /\ UNCHANGED <<active_session, session_started_at, consumer_task, draining,
                   active_utterance_id, pending_final_utterance_id, audio_ring,
                   now, drains, vad, in_speech, utterances, vad_calls, backend_events,
                   fed, resets, failures>>
    /\ UNCHANGED <<oscVars, hubVars, closer, unitVars>>

(***************************************************************************)
(* _consume_session_events, one task per session                           *)
(***************************************************************************)
\* the texts of the backend's transcript events
BackendTexts == {<<>>, <<"t">>, <<" ", "t">>, <<"t", "u">>}

\* utterance_id = self._active_utterance_id or self._pending_final_utterance_id
CorrelatedId(active, pending_final) == IF active # None THEN active ELSE pending_final

ConsumeEventKeepsPending(s, is_final, text) ==
    /\ s \in 1..Len(sessions)
    /\ sessions[s].consumer = "running" /\ ~sessions[s].closed
    /\ backend_events < MaxBackendEvents
    /\ backend_events' = backend_events + 1
    /\ LET id == CorrelatedId(active_utterance_id, pending_final_utterance_id)
       IN  IF id = None
           THEN UNCHANGED <<events, pending_final_utterance_id>>
           ELSE /\ events' = Append(events, TranscriptEvent(is_final, id, text))
                /\ UNCHANGED pending_final_utterance_id
    /\ UNCHANGED <<state, active_session, session_started_at, consumer_task, draining,
                   active_utterance_id, audio_ring, now, sessions, drains, timer, vad,
                   in_speech, utterances, vad_calls, fed, resets, failures>>
    /\ UNCHANGED <<oscVars, hubVars, closer, unitVars>>

ConsumeEvent(s, is_final, text) ==
    /\ s \in 1..Len(sessions)
    /\ sessions[s].consumer = "running" /\ ~sessions[s].closed
    /\ backend_events < MaxBackendEvents
    /\ backend_events' = backend_events + 1
    /\ LET id == CorrelatedId(active_utterance_id, pending_final_utterance_id)
       IN  IF id = None
           THEN UNCHANGED <<events, pending_final_utterance_id>>
           ELSE /\ events' = Append(events, TranscriptEvent(is_final, id, text))
                /\ pending_final_utterance_id' =
                     IF is_final /\ pending_final_utterance_id = id
                        /\ active_utterance_id = None
                     THEN None ELSE pending_final_utterance_id
    /\ UNCHANGED <<state, active_session, session_started_at, consumer_task, draining,
                   active_utterance_id, audio_ring, now, sessions, drains, timer, vad,
                   in_speech, utterances, vad_calls, fed, resets, failures>>
    /\ UNCHANGED <<oscVars, hubVars, closer, unitVars>>

\* session.events() ends once the session is stopped or closed
ConsumerStreamEnd(s) ==
    /\ s \in 1..Len(sessions)
    /\ sessions[s].consumer = "running"
    /\ sessions[s].stopped \/ sessions[s].closed
    /\ sessions' = [sessions EXCEPT ![s].consumer = "done"]
    /\ UNCHANGED <<state, active_session, session_started_at, consumer_task, draining,
                   events, active_utterance_id, pending_final_utterance_id, audio_ring,
                   now, drains, timer, vad, in_speech, utterances, vad_calls,
                   backend_events, fed, resets, failures>>
    /\ UNCHANGED <<oscVars, hubVars, closer, unitVars>>

\* session.events() raises: the consumer puts an STTErrorEvent and ends
ConsumerStreamError(s) ==
    /\ s \in 1..Len(sessions)
    /\ sessions[s].consumer = "running"
    /\ MayFail
    /\ failures' = failures + 1
    /\ events' = Append(events, ErrorEvent("stream"))
    /\ sessions' = [sessions EXCEPT ![s].consumer = "done"]
    /\ UNCHANGED <<state, active_session, session_started_at, consumer_task, draining,
                   active_utterance_id, pending_final_utterance_id, audio_ring,
                   now, drains, timer, vad, in_speech, utterances, vad_calls,
                   backend_events, fed, resets>>
    /\ UNCHANGED <<oscVars, hubVars, closer, unitVars>>

\* The clock advances.  The controller reads the clock only to compare it
\* with the deadline of the current session and of the sleeping timer, so
\* time is let pass only while one of the two has not expired yet.
DeadlinePending ==
    \/ session_started_at # -1 /\ ~DeadlineElapsed(session_started_at, now)
    \/ timer.pc = "sleep" /\ now < timer.due

Tick ==
    /\ DeadlinePending
    /\ now' = now + 1
    /\ UNCHANGED <<state, active_session, session_started_at, consumer_task, draining,
                   events, active_utterance_id, pending_final_utterance_id, audio_ring,
                   sessions, drains, timer, vad, in_speech, utterances, vad_calls,
                   backend_events, fed, resets, failures>>
    /\ UNCHANGED <<oscVars, hubVars, closer, unitVars>>

\* the controller's tasks, without the backend's transcript events (the
\* controller passes the text of an event on without looking at it)
NextSttSteps ==
    \/ VadEnsureOpenDone \/ VadBridgeOpenDone \/ VadBridgeSendDone
    \/ VadSendPreDone \/ VadSendChunkDone \/ VadSpeechEndDone
    \/ VadSilenceStopDone \/ VadSilenceWaitDone \/ VadSilenceCloseDone
    \/ TimerFire \/ TimerOpenDone \/ TimerStopDone \/ TimerWaitDone \/ TimerCloseDone
    \/ \E d \in 1..MaxSessions : DrainStopDone(d) \/ DrainWaitDone(d) \/ DrainCloseDone(d)
    \/ \E s \in 1..MaxSessions : ConsumerStreamEnd(s)
    \/ Tick

NextSttTasks ==
    \/ VadSpeechStart \/ VadSpeechChunk \/ VadSpeechEnd
    \/ NextSttSteps

NextStt ==
    \/ NextSttTasks
    \/ \E s \in 1..MaxSessions, f \in BOOLEAN : ConsumeEvent(s, f, <<"t">>)


\* the controller with a failing backend
NextSttFaults ==
    \/ NextSttTasks
    \/ VadEnsureOpenFail \/ VadBridgeOpenFail \/ VadBridgeSendFail \/ VadSendFail
    \/ TimerOpenFail \/ TimerBridgeSendFail
    \/ \E s \in 1..MaxSessions : ConsumerStreamError(s)



(***************************************************************************)
(* close()                                                                 *)
(***************************************************************************)
\* the fields close() reads and writes
CloseState ==
    [state |-> state, events |-> events, sessions |-> sessions,
     consumer_task |-> consumer_task, active_session |-> active_session,
     draining |-> draining, drains |-> drains,
     session_started_at |-> session_started_at, timer |-> timer, closer |-> closer]

CloseApply(c) ==
    /\ state' = c.state
    /\ events' = c.events
    /\ sessions' = c.sessions
    /\ consumer_task' = c.consumer_task
    /\ active_session' = c.active_session
    /\ draining' = c.draining
    /\ drains' = c.drains
    /\ session_started_at' = c.session_started_at
    /\ timer' = c.timer
    /\ closer' = c.closer
    /\ UNCHANGED <<active_utterance_id, pending_final_utterance_id, audio_ring, now,
                   vad, in_speech, utterances, vad_calls, backend_events, fed, resets,
                   failures>>
    /\ UNCHANGED <<oscVars, hubVars, unitVars>>

\* the end of close(): _session_started_at = None, _set_state(DISCONNECTED)
CloseFinish(c) ==
    [c EXCEPT !.session_started_at = -1,
              !.events = SetStateEvents(c.events, c.state, "DISCONNECTED"),
              !.state = "DISCONNECTED",
              !.closer = [pc |-> "returned", session |-> None]]

\* task.cancel() on a drain task: a task that has finished is left as it is;
\* a task suspended in session.stop() or in wait_for ends before it calls
\* session.close(); a task suspended in session.close() has called it
CancelDrain(dr) ==
    [dr EXCEPT !.pc = IF dr.pc \in {"stop", "wait"} THEN "cancelled"
                      ELSE IF dr.pc = "close" THEN "close_cancelled"
                      ELSE dr.pc]

\* cancelling a drain task inside wait_for(consumer_task) cancels the consumer
CancelDrainsSessions(sess, drs, set) ==
    [s \in DOMAIN sess |->
        IF /\ sess[s].consumer = "running"
           /\ \E d \in set : drs[d].pc = "wait" /\ drs[d].consumer = s
        THEN [sess[s] EXCEPT !.consumer = "cancelled"]
        ELSE sess[s]]

\* close() from "if self._draining:": cancel every drain task, then gather
CloseDrains(c) ==
    IF c.draining # {}
    THEN [c EXCEPT !.sessions = CancelDrainsSessions(c.sessions, c.drains, c.draining),
                   !.drains = [d \in DOMAIN c.drains |->
                                  IF d \in c.draining THEN CancelDrain(c.drains[d])
                                  ELSE c.drains[d]],
                   !.closer = [pc |-> "drains", session |-> None]]
    ELSE CloseFinish(c)

\* close() from "if self._active_session:": await its close()
CloseSession(c) ==
    IF c.active_session # None
    THEN [c EXCEPT !.closer = [pc |-> "session", session |-> c.active_session]]
    ELSE CloseDrains(c)

\* close() from "if self._consumer_task:": cancel it and await it (a consumer
\* that has finished is awaited without suspending)
CloseConsumer(c) ==
    IF c.consumer_task = None THEN CloseSession(c)
    ELSE IF c.sessions[c.consumer_task].consumer = "running"
         THEN [c EXCEPT !.sessions[c.consumer_task].consumer = "cancelled",
                        !.closer = [pc |-> "consumer", session |-> None]]
         ELSE CloseSession([c EXCEPT !.consumer_task = None])

\* close() is called (between two handle_vad_event calls): _set_state, the
\* timer is cancelled (a timer suspended in session.close() has called it),
\* then the consumer
CloseStart ==
    /\ closer.pc = "none" /\ vad.pc = "idle"
    /\ LET first == IF active_session # None THEN "DRAINING" ELSE "DISCONNECTED"
       IN  CloseApply(CloseConsumer(
               [CloseState EXCEPT
                   !.events = SetStateEvents(events, state, first),
                   !.state = first,
                   !.sessions = CancelTimerSessions(sessions),
                   !.timer = IF timer.pc = "none" THEN timer
                             ELSE IF timer.pc = "close"
                                  THEN [timer EXCEPT !.pc = "close_cancelled"]
                                  ELSE [IdleTimer EXCEPT !.pc = "done"]]))

\* the cancelled consumer has ended
CloseConsumerDone ==
    /\ closer.pc = "consumer"
    /\ CloseApply(CloseSession([CloseState EXCEPT !.consumer_task = None]))

\* _active_session.close() has returned
CloseSessionDone ==
    /\ closer.pc = "session"
    /\ CloseApply(CloseDrains(
           [CloseState EXCEPT !.sessions = DrainClose(sessions, closer.session),
                              !.active_session = None]))

\* gather(*_draining) has returned: every drain task has ended
CloseDrainsDone ==
    /\ closer.pc = "drains"
    /\ \A d \in draining : drains[d].pc \notin {"stop", "wait", "close"}
    /\ CloseApply(CloseFinish([CloseState EXCEPT !.draining = {}]))

\* the tasks close() leaves running while it is suspended
NextSttBackground ==
    \/ \E d \in 1..MaxSessions : DrainStopDone(d) \/ DrainWaitDone(d) \/ DrainCloseDone(d)
    \/ \E s \in 1..MaxSessions : ConsumerStreamEnd(s)

\* the controller until close() is called, and close()
NextSttClose ==
    \/ closer.pc = "none" /\ NextStt
    \/ closer.pc # "none" /\ NextSttBackground
    \/ CloseStart \/ CloseConsumerDone \/ CloseSessionDone \/ CloseDrainsDone

(***************************************************************************)
(* warmup(), called by GuiController.set_stt_enabled(True) after an        *)
(* earlier set_stt_enabled(False) has closed the controller                *)
(***************************************************************************)
\* warmup() up to the await of open_session in _ensure_session (which
\* returns at once if a session is active)
Warmup ==
    /\ closer.pc = "returned" /\ vad.pc = "idle"
    /\ active_session = None /\ CanOpen
    /\ vad' = [IdleVad EXCEPT !.pc = "warmup_open"]
    /\ UNCHANGED <<state, active_session, session_started_at, consumer_task, draining,
                   events, active_utterance_id, pending_final_utterance_id, audio_ring,
                   now, sessions, drains, timer, in_speech, utterances, vad_calls,
                   backend_events, fed, resets, failures>>
    /\ UNCHANGED <<oscVars, hubVars, closer, unitVars>>

\* _ensure_session of warmup(): open_session returns, the session is made
\* the active one with its consumer task and its timer; no audio is sent
WarmupOpenDone ==
    /\ vad.pc = "warmup_open"
    /\ LET s == Len(sessions) + 1
       IN  /\ sessions' = Append(CancelTimerSessions(sessions), NewSession)
           /\ active_session' = s
           /\ session_started_at' = now
           /\ consumer_task' = s
           /\ timer' = ScheduledTimer
           /\ events' = SetStateEvents(events, state, "STREAMING")
           /\ state' = "STREAMING"
           /\ vad' = IdleVad
    /\ UNCHANGED <<draining, active_utterance_id, pending_final_utterance_id, audio_ring,
                   now, drains, in_speech, utterances, vad_calls, backend_events, fed,
                   resets, failures>>
    /\ UNCHANGED <<oscVars, hubVars, closer, unitVars>>

\* the controller closed at some point and warmed up again, with the
\* transcripts the backend yields on the new session (the microphone is
\* silent and the clock stands still after close())
NextSttReopen ==
    \/ NextSttClose
    \/ Warmup \/ WarmupOpenDone
    \/ \E s \in 1..MaxSessions, f \in BOOLEAN :
         closer.pc = "returned" /\ ConsumeEvent(s, f, <<"t">>)

(***************************************************************************)
(* Texts: a str is the sequence of its characters                          *)
(***************************************************************************)
IsBlank(t) == \A i \in 1..Len(t) : t[i] = " "

\* str.strip()
Strip(t) ==
    IF IsBlank(t) THEN <<>>
    ELSE LET first == CHOOSE i \in 1..Len(t) : t[i] # " " /\ \A j \in 1..(i - 1) : t[j] = " "
             last == CHOOSE i \in 1..Len(t) : t[i] # " " /\ \A j \in (i + 1)..Len(t) : t[j] = " "
         IN  SubSeq(t, first, last)

\* " ".join(ts)
RECURSIVE JoinSp(_)
JoinSp(ts) ==
    IF ts = <<>> THEN <<>>
    ELSE IF Len(ts) = 1 THEN ts[1]
    ELSE ts[1] \o <<" ">> \o JoinSp(Tail(ts))

\* "".join(ts)
RECURSIVE Concat(_)
Concat(ts) == IF ts = <<>> THEN <<>> ELSE ts[1] \o Concat(Tail(ts))

\* TextWrapper._split_chunks with break_on_hyphens=False: the maximal runs of
\* whitespace and of non-whitespace
RECURSIVE SplitChunks(_)
SplitChunks(t) ==
    IF t = <<>> THEN <<>>
    ELSE LET n == CHOOSE k \in 1..Len(t) :
                    /\ \A i \in 1..k : (t[i] = " ") = (t[1] = " ")
                    /\ k = Len(t) \/ (t[k + 1] = " ") # (t[1] = " ")
         IN  <<SubSeq(t, 1, n)>> \o SplitChunks(SubSeq(t, n + 1, Len(t)))

\* TextWrapper._wrap_chunks, inner loop: chunks are taken while they fit
RECURSIVE FillLine(_, _, _)
FillLine(chunks, cur, width) ==
    IF chunks # <<>> /\ Len(Concat(cur)) + Len(chunks[1]) <= width
    THEN FillLine(Tail(chunks), Append(cur, chunks[1]), width)
    ELSE [cur |-> cur, rest |-> chunks]

\* TextWrapper._wrap_chunks with drop_whitespace=True, break_long_words=True;
\* have_lines tells whether a line has been produced already
RECURSIVE WrapChunks(_, _, _)
WrapChunks(chunks, width, have_lines) ==
    IF chunks = <<>> THEN <<>>
    ELSE LET c0 == IF IsBlank(chunks[1]) /\ have_lines THEN Tail(chunks) ELSE chunks
             f == FillLine(c0, <<>>, width)
             long == f.rest # <<>> /\ Len(f.rest[1]) > width
             space_left == IF width < 1 THEN 1 ELSE width - Len(Concat(f.cur))
             cur1 == IF long THEN Append(f.cur, SubSeq(f.rest[1], 1, space_left))
                     ELSE f.cur
             rest1 == IF long
                      THEN <<SubSeq(f.rest[1], space_left + 1, Len(f.rest[1]))>>
                           \o Tail(f.rest)
                      ELSE f.rest
             cur2 == IF cur1 # <<>> /\ IsBlank(cur1[Len(cur1)])
                     THEN SubSeq(cur1, 1, Len(cur1) - 1) ELSE cur1
         IN  (IF cur2 # <<>> THEN <<Concat(cur2)>> ELSE <<>>)
             \o WrapChunks(rest1, width, have_lines \/ cur2 # <<>>)

(***************************************************************************)
(* SmartOscQueue                                                           *)
(***************************************************************************)
OSCMessage(utterance_id, text, created_at) ==
    [utterance_id |-> utterance_id, text |-> text, created_at |-> created_at]

\* one send_chatbox call: its text, the time, whether it returned (ok) or
\* raised OSError, and the pending messages it was combined from
ChatboxCall(text, t, ok, batch) == [text |-> text, at |-> t, ok |-> ok, batch |-> batch]

\* the texts enqueue is called with
OscTexts == {<<>>, <<"a">>, <<"b", "c", "d", " ", "e", "f">>}

\* process_due: cooldown in effect
InCooldownOff(t, nsa) == FALSE
InCooldown(t, nsa) == t < nsa

\* _drop_expired
DropExpiredOff(p, t) == p
DropExpired(p, t) == SelectSeq(p, LAMBDA m : (t - m.created_at) <= ttl_s)

RECURSIVE MinCreatedAt(_)
MinCreatedAt(p) ==
    IF Len(p) = 1 THEN p[1].created_at
    ELSE Min2(p[1].created_at, MinCreatedAt(Tail(p)))

\* _combine_pending
CombinePending(p) ==
    LET texts == [i \in 1..Len(p) |-> p[i].text]
    IN  [text |-> Strip(JoinSp(SelectSeq(texts, LAMBDA x : x # <<>>))),
         created_at |-> MinCreatedAt(p)]

\* _split_text
SplitText(text) ==
    IF Len(text) <= max_chars THEN <<text>>
    ELSE CHOOSE lines \in {WrapChunks(chunks, max_chars, FALSE) :
                              chunks \in {SplitChunks(s) : s \in {text}}} : TRUE

\* process_due after send_chatbox raised OSError
SendFailedStartsCooldown(kept, nsa, call) ==
    [pending |-> kept, next_send_at |-> call.at + cooldown_s, calls |-> <<call>>]
SendFailed(kept, nsa, call) ==
    [pending |-> kept, next_send_at |-> nsa, calls |-> <<call>>]

\* process_due after send_chatbox returned
SendDoneNoCarry(kept, t, call, tail, created_at) ==
    [pending |-> <<>>, next_send_at |-> t + cooldown_s, calls |-> <<call>>]
SendDone(kept, t, call, tail, created_at) ==
    [pending |-> IF tail # <<>>
                 THEN <<OSCMessage(kept[1].utterance_id, JoinSp(tail), created_at)>>
                 ELSE <<>>,
     next_send_at |-> t + cooldown_s,
     calls |-> <<call>>]

\* process_due at time t; ok tells whether send_chatbox, if it is called,
\* returns.  The result is the queue afterwards and the calls made.
ProcessDue(p, nsa, t, ok) ==
    LET kept == DropExpired(p, t)
        combined == CombinePending(kept)
        parts == SplitText(combined.text)
        call == ChatboxCall(parts[1], t, ok, kept)
    IN  IF InCooldown(t, nsa)
        THEN [pending |-> p, next_send_at |-> nsa, calls |-> <<>>]
        ELSE IF kept = <<>>
        THEN [pending |-> <<>>, next_send_at |-> nsa, calls |-> <<>>]
        ELSE IF combined.text = <<>>
        THEN [pending |-> <<>>, next_send_at |-> nsa, calls |-> <<>>]
        ELSE IF ~ok
        THEN SendFailed(kept, nsa, call)
        ELSE SendDone(kept, t, call, Tail(parts), combined.created_at)

\* the queue takes the result of a process_due
QueueBecomes(r, ok) ==
    /\ ok \/ (r.calls # <<>> /\ send_failures < MaxSendFailures)
    /\ pending' = r.pending
    /\ next_send_at' = r.next_send_at
    /\ sent' = sent \o r.calls
    /\ send_failures' = IF r.calls # <<>> /\ ~ok THEN send_failures + 1 ELSE send_failures

\* enqueue(message)
Enqueue(m, ok) ==
    /\ enqueued' = Append(enqueued, m)
    /\ \E r \in {ProcessDue(Append(pending, m), next_send_at, now, ok)} :
         QueueBecomes(r, ok)

InitOsc ==
    /\ pending = <<>>
    /\ next_send_at = 0
    /\ sent = <<>>
    /\ enqueued = <<>>
    /\ send_failures = 0

\* a caller enqueues a message created now
OscEnqueue(text, ok) ==
    /\ Len(enqueued) < MaxEnqueues
    /\ Enqueue(OSCMessage(Len(enqueued) + 1, text, now), ok)
    /\ UNCHANGED <<now, sttVars, unitVars, hubVars>>

\* process_due, as called by the flush loop
OscProcessDue(ok) ==
    /\ \E r \in {ProcessDue(pending, next_send_at, now, ok)} : QueueBecomes(r, ok)
    /\ UNCHANGED <<enqueued, now, sttVars, unitVars, hubVars>>

\* the clock advances
OscTick ==
    /\ now < MaxTime
    /\ now' = now + 1
    /\ UNCHANGED <<sttVars, unitVars, oscVars, hubVars>>

NextOsc ==
    \/ \E text \in OscTexts, ok \in BOOLEAN : OscEnqueue(text, ok)
    \/ \E ok \in BOOLEAN : OscProcessDue(ok)
    \/ OscTick

(***************************************************************************)
(* ClientHub                                                               *)
(***************************************************************************)
\* dict operations
DictPut(d, k, v) == [x \in (DOMAIN d) \cup {k} |-> IF x = k THEN v ELSE d[x]]
DictPop(d, k) == [x \in (DOMAIN d) \ {k} |-> d[x]]

\* an optional text is <<>> (None) or <<text>>
NoText == <<>>
SomeText(t) == <<t>>

UIEvent(type, utterance_id, text) ==
    [type |-> type, utterance_id |-> utterance_id, text |-> text]

\* UtteranceBundle
NewBundle == [partial |-> NoText, final |-> NoText, translation |-> NoText]

\* get_or_create_bundle
GetOrCreateBundle(b, id) == IF id \in DOMAIN b THEN b[id] ELSE NewBundle

\* with_transcript that keeps the partial when a final is set
WithTranscriptKeepsPartial(bundle, text, is_final) ==
    IF is_final
    THEN [bundle EXCEPT !.final = SomeText(text)]
    ELSE IF bundle.final = NoText
    THEN [bundle EXCEPT !.partial = SomeText(text)]
    ELSE bundle

\* UtteranceBundle.with_transcript
WithTranscript(bundle, text, is_final) ==
    IF is_final
    THEN [bundle EXCEPT !.final = SomeText(text), !.partial = NoText]
    ELSE IF bundle.final = NoText
    THEN [bundle EXCEPT !.partial = SomeText(text)]
    ELSE bundle

\* UtteranceBundle.with_translation
WithTranslation(bundle, text) == [bundle EXCEPT !.translation = SomeText(text)]

\* _handle_transcript: the bundles afterwards, and the UI event it puts
HandleTranscript(b, id, text, is_final) ==
    DictPut(b, id, WithTranscript(GetOrCreateBundle(b, id), text, is_final))
TranscriptUIEvent(id, text, is_final) ==
    UIEvent(IF is_final THEN "TRANSCRIPT_FINAL" ELSE "TRANSCRIPT_PARTIAL", id, text)

\* _enqueue_osc: the merged text
MergedOscTextAlone(transcript_text, translation) == transcript_text
MergedOscText(transcript_text, translation) ==
    IF translation = NoText THEN transcript_text
    ELSE transcript_text \o <<" ", "(">> \o translation[1] \o <<")">>

\* _enqueue_osc: osc.enqueue(msg), then the OSC_SENT UI event (ui_before are
\* the UI events the caller has put before)
EnqueueOsc(id, transcript_text, translation, ok, ui_before) ==
    LET merged == MergedOscText(transcript_text, translation)
    IN  /\ Enqueue(OSCMessage(id, merged, now), ok)
        /\ ui_events' = ui_events \o ui_before \o <<UIEvent("OSC_SENT", id, merged)>>

\* _ensure_translation: a task for this id is registered
TaskRegisteredOff(tt, id) == FALSE
TaskRegistered(tt, id) == id \in DOMAIN tt

\* a _translate_and_enqueue task that has not run yet
NewTask(id, text) == [id |-> id, text |-> text, pc |-> "created"]

\* _ensure_translation (llm is not None)
EnsureTranslation(id, text) ==
    IF TaskRegistered(translation_tasks, id)
    THEN UNCHANGED <<tasks, translation_tasks>>
    ELSE /\ tasks' = Append(tasks, NewTask(id, text))
         /\ translation_tasks' = DictPut(translation_tasks, id, Len(tasks) + 1)

\* a final transcript: _handle_transcript, then the OSC message with the
\* transcript alone or the translation task
HandleFinal(id, text, ok) ==
    /\ bundles' = HandleTranscript(bundles, id, text, TRUE)
    /\ IF ~llm \/ ~translation_enabled
       THEN /\ EnqueueOsc(id, text, NoText, ok, <<TranscriptUIEvent(id, text, TRUE)>>)
            /\ UNCHANGED <<tasks, translation_tasks>>
       ELSE /\ ok
            /\ EnsureTranslation(id, text)
            /\ ui_events' = Append(ui_events, TranscriptUIEvent(id, text, TRUE))
            /\ UNCHANGED oscVars

\* stop() has run: it cancels the _run_stt_event_loop task before it cancels
\* the translation tasks, which nothing else cancels
HubStopped ==
    \/ \E k \in 1..Len(tasks) : tasks[k].pc \in {"cancelled", "unwound"}
    \/ hub_stop.stt_task # "running"

\* _run_stt_event_loop takes the next event of the controller:
\* _handle_stt_event
HubSttEvent(ok) ==
    /\ ~HubStopped
    /\ hub_read < Len(events)
    /\ hub_read' = hub_read + 1
    /\ LET ev == events[hub_read + 1]
       IN  IF ev.type = "final"
           THEN HandleFinal(ev.id, ev.text, ok)
           ELSE /\ ok
                /\ bundles' = IF ev.type = "partial"
                              THEN HandleTranscript(bundles, ev.id, ev.text, FALSE)
                              ELSE bundles
                /\ ui_events' = Append(ui_events,
                     IF ev.type = "partial" THEN TranscriptUIEvent(ev.id, ev.text, FALSE)
                     ELSE IF ev.type = "state"
                     THEN UIEvent("SESSION_STATE_CHANGED", None, <<>>)
                     ELSE UIEvent("ERROR", None, <<>>))
                /\ UNCHANGED <<tasks, translation_tasks, oscVars>>
    /\ UNCHANGED <<llm, translation_enabled, fallback_transcript_only, llm_calls, submits>>
    /\ UNCHANGED <<now, sttVars, unitVars>>

\* the texts submit_text is called with (stripped and not empty)
SubmitTexts == {<<"s">>}

\* submit_text: a fresh utterance id, then as for a final transcript
SubmitText(text, ok) ==
    /\ Len(events) + submits < MaxHubInputs
    /\ submits' = submits + 1
    /\ HandleFinal(MaxUtterances + submits + 1, text, ok)
    /\ UNCHANGED <<llm, translation_enabled, fallback_transcript_only, hub_read, llm_calls>>
    /\ UNCHANGED <<now, sttVars, unitVars>>

\* the translations the LLM returns
LlmTexts == {<<"x">>}

\* _translate_and_enqueue starts: it runs up to the await of llm.translate
TranslateStart(k) ==
    /\ k \in 1..Len(tasks) /\ tasks[k].pc = "created"
    /\ tasks' = [tasks EXCEPT ![k].pc = "translating"]
    /\ llm_calls' = Append(llm_calls, [id |-> tasks[k].id, text |-> tasks[k].text])
    /\ UNCHANGED <<llm, translation_enabled, fallback_transcript_only, hub_read, bundles,
                   translation_tasks, ui_events, submits>>
    /\ UNCHANGED <<now, sttVars, unitVars, oscVars>>

\* llm.translate returns: with_translation, TRANSLATION_DONE, _enqueue_osc
TranslateDone(k, translation, ok) ==
    /\ k \in 1..Len(tasks) /\ tasks[k].pc = "translating"
    /\ LET id == tasks[k].id
       IN  /\ bundles' = DictPut(bundles, id,
                                 WithTranslation(GetOrCreateBundle(bundles, id), translation))
           /\ EnqueueOsc(id, tasks[k].text, SomeText(translation), ok,
                         <<UIEvent("TRANSLATION_DONE", id, translation)>>)
    /\ tasks' = [tasks EXCEPT ![k].pc = "done"]
    /\ UNCHANGED <<llm, translation_enabled, fallback_transcript_only, hub_read,
                   translation_tasks, llm_calls, submits>>
    /\ UNCHANGED <<now, sttVars, unitVars>>

\* llm.translate raises and the task swallows the exception
TranslateFailSilent(k, ok) ==
    /\ k \in 1..Len(tasks) /\ tasks[k].pc = "translating"
    /\ ok
    /\ tasks' = [tasks EXCEPT ![k].pc = "done"]
    /\ UNCHANGED <<llm, translation_enabled, fallback_transcript_only, hub_read, bundles,
                   translation_tasks, ui_events, llm_calls, submits>>
    /\ UNCHANGED <<now, sttVars, unitVars, oscVars>>

\* llm.translate raises: an ERROR UI event, and with fallback_transcript_only
\* the transcript alone is enqueued
TranslateFail(k, ok) ==
    /\ k \in 1..Len(tasks) /\ tasks[k].pc = "translating"
    /\ IF fallback_transcript_only
       THEN EnqueueOsc(tasks[k].id, tasks[k].text, NoText, ok,
                       <<UIEvent("ERROR", tasks[k].id, <<>>)>>)
       ELSE /\ ok
            /\ ui_events' = Append(ui_events, UIEvent("ERROR", tasks[k].id, <<>>))
            /\ UNCHANGED oscVars
    /\ tasks' = [tasks EXCEPT ![k].pc = "done"]
    /\ UNCHANGED <<llm, translation_enabled, fallback_transcript_only, hub_read, bundles,
                   translation_tasks, llm_calls, submits>>
    /\ UNCHANGED <<now, sttVars, unitVars>>

\* stop() cancels every translation task: a task that has not run yet or
\* that awaits llm.translate gets the CancelledError, re-raises it and ends;
\* a task that has finished is left as it is
TranslationsCancelled ==
    /\ \E k \in 1..Len(tasks) : tasks[k].pc \in {"created", "translating"}
    /\ tasks' = [k \in 1..Len(tasks) |->
                    IF tasks[k].pc \in {"created", "translating"}
                    THEN [tasks[k] EXCEPT !.pc = "cancelled"]
                    ELSE tasks[k]]
    /\ UNCHANGED <<llm, translation_enabled, fallback_transcript_only, hub_read, bundles,
                   translation_tasks, ui_events, llm_calls, submits>>
    /\ UNCHANGED <<now, sttVars, unitVars, oscVars>>

\* the done callback of a task that has ended: _translation_tasks.pop(utterance_id, None)
TaskDoneCallback(k) ==
    /\ k \in 1..Len(tasks) /\ tasks[k].pc \in {"done", "cancelled"}
    /\ tasks' = [tasks EXCEPT ![k].pc = IF tasks[k].pc = "done" THEN "finished"
                                        ELSE "unwound"]
    /\ translation_tasks' = DictPop(translation_tasks, tasks[k].id)
    /\ UNCHANGED <<llm, translation_enabled, fallback_transcript_only, hub_read, bundles,
                   ui_events, llm_calls, submits>>
    /\ UNCHANGED <<now, sttVars, unitVars, oscVars>>

\* the transcript events the controller may put on its stream (see
\* ConsumeEvent), when the hub is taken alone
SttStreamEvents ==
    {TranscriptEvent(f, id, <<"t">>) : f \in BOOLEAN, id \in 1..MaxUtterances}

\* the controller puts an event on its stream
SttPuts(ev) ==
    /\ Len(events) + submits < MaxHubInputs
    /\ events' = Append(events, ev)
    /\ UNCHANGED <<state, active_session, session_started_at, consumer_task, draining,
                   active_utterance_id, pending_final_utterance_id, audio_ring,
                   sessions, drains, timer, vad, in_speech, utterances, vad_calls,
                   backend_events, fed, resets, failures>>
    /\ UNCHANGED <<now, oscVars, hubVars, closer, unitVars>>

\* the hub's tasks with an LLM and a sender that succeed
NextHubTasks ==
    \/ HubSttEvent(TRUE)
    \/ \E k \in 1..Len(tasks) : TranslateStart(k)
    \/ \E k \in 1..Len(tasks), translation \in LlmTexts :
         TranslateDone(k, translation, TRUE)
    \/ \E k \in 1..Len(tasks) : TaskDoneCallback(k)

NextHub ==
    \/ NextHubTasks
    \/ HubSttEvent(FALSE)
    \/ \E k \in 1..Len(tasks), translation \in LlmTexts :
         TranslateDone(k, translation, FALSE)
    \/ \E text \in SubmitTexts, ok \in BOOLEAN : SubmitText(text, ok)
    \/ \E k \in 1..Len(tasks), ok \in BOOLEAN : TranslateFail(k, ok)
    \/ TranslationsCancelled
    \/ \E ev \in SttStreamEvents : SttPuts(ev)

(***************************************************************************)
(* UtteranceBundle taken alone: its two methods called in any order        *)
(***************************************************************************)
\* the texts of the transcripts and translations given to a bundle
BundleTexts == {<<"t">>, <<"u">>}

\* bundle.with_transcript(Transcript(id, text, is_final)) on the bundle of id
BundleWithTranscript(id, text, is_final) ==
    /\ bundles' = DictPut(bundles, id,
                          WithTranscript(GetOrCreateBundle(bundles, id), text, is_final))
    /\ UNCHANGED <<llm, translation_enabled, fallback_transcript_only, hub_read,
                   translation_tasks, tasks, ui_events, llm_calls, submits>>
    /\ UNCHANGED <<now, sttVars, unitVars, oscVars>>

\* bundle.with_translation(Translation(id, text)) on the bundle of id
BundleWithTranslation(id, text) ==
    /\ bundles' = DictPut(bundles, id,
                          WithTranslation(GetOrCreateBundle(bundles, id), text))
    /\ UNCHANGED <<llm, translation_enabled, fallback_transcript_only, hub_read,
                   translation_tasks, tasks, ui_events, llm_calls, submits>>
    /\ UNCHANGED <<now, sttVars, unitVars, oscVars>>

NextBundle ==
    \E id \in 1..MaxUtterances, text \in BundleTexts :
        \/ \E is_final \in BOOLEAN : BundleWithTranscript(id, text, is_final)
        \/ BundleWithTranslation(id, text)

(***************************************************************************)
(* SemaphoreLLMProvider: translate calls under "async with self.semaphore" *)
(***************************************************************************)
MaxPermits == 2
MaxCalls == 3

\* a future in Semaphore._waiters, and a translate call
NewWaiter(c) == [call |-> c, fut |-> "pending"]
NewCall(pc) == [pc |-> pc, must_cancel |-> FALSE, waited |-> pc = "acquire"]

\* Semaphore.locked(): whether acquire() has to wait
LockedOff(value, waiters) == FALSE
Locked(value, waiters) ==
    value = 0 \/ \E i \in 1..Len(waiters) : waiters[i].fut # "cancelled"

\* Semaphore._wake_up_next(): the first waiter that is not done gets the
\* permit and is woken
WakeUpNext(value, waiters) ==
    LET pend == {i \in 1..Len(waiters) : waiters[i].fut = "pending"}
    IN  IF pend = {} THEN [value |-> value, waiters |-> waiters]
        ELSE LET i == CHOOSE j \in pend : \A k \in pend : j <= k
             IN  [value |-> value - 1, waiters |-> [waiters EXCEPT ![i].fut = "woken"]]

\* Semaphore.release(), called by __aexit__
Release(value, waiters) == WakeUpNext(value + 1, waiters)

\* the position of the future of call c in _waiters, and _waiters without it
WaiterOf(c) == CHOOSE i \in 1..Len(sem_waiters) : sem_waiters[i].call = c
WithoutWaiter(i) ==
    SubSeq(sem_waiters, 1, i - 1) \o SubSeq(sem_waiters, i + 1, Len(sem_waiters))

SemFrame ==
    UNCHANGED <<now, sttVars, oscVars, hubVars, hub_stop, ringVars, gateVars, contextVars,
                concurrency_limit, session_limit>>

\* translate is called: __aenter__ runs acquire() up to its await, or takes
\* a permit at once and calls inner.translate
SemTranslate ==
    /\ Len(sem_calls) < MaxCalls
    /\ IF Locked(sem_value, sem_waiters)
       THEN /\ sem_waiters' = Append(sem_waiters, NewWaiter(Len(sem_calls) + 1))
            /\ sem_calls' = Append(sem_calls, NewCall("acquire"))
            /\ UNCHANGED sem_value
       ELSE /\ sem_value' = sem_value - 1
            /\ sem_calls' = Append(sem_calls, NewCall("inner"))
            /\ UNCHANGED sem_waiters
    /\ SemFrame

\* task.cancel() on the task of a call that waits in acquire(): a pending
\* future is cancelled; if the future is done already the task is marked
SemCancelWaiting(c) ==
    /\ c \in 1..Len(sem_calls) /\ sem_calls[c].pc = "acquire"
    /\ ~sem_calls[c].must_cancel /\ sem_waiters[WaiterOf(c)].fut # "cancelled"
    /\ IF sem_waiters[WaiterOf(c)].fut = "pending"
       THEN /\ sem_waiters' = [sem_waiters EXCEPT ![WaiterOf(c)].fut = "cancelled"]
            /\ UNCHANGED sem_calls
       ELSE /\ sem_calls' = [sem_calls EXCEPT ![c].must_cancel = TRUE]
            /\ UNCHANGED sem_waiters
    /\ UNCHANGED sem_value
    /\ SemFrame

\* the task of a waiting call runs again, its future done or cancelled:
\* the rest of acquire()
SemAcquireResumes(c) ==
    /\ c \in 1..Len(sem_calls) /\ sem_calls[c].pc = "acquire"
    /\ sem_waiters[WaiterOf(c)].fut # "pending"
    /\ LET fut == sem_waiters[WaiterOf(c)].fut
           rest == WithoutWaiter(WaiterOf(c))
           r == IF fut = "cancelled" THEN [value |-> sem_value, waiters |-> rest]
                ELSE IF sem_calls[c].must_cancel THEN WakeUpNext(sem_value + 1, rest)
                ELSE IF sem_value > 0 THEN WakeUpNext(sem_value, rest)
                ELSE [value |-> sem_value, waiters |-> rest]
       IN  /\ sem_value' = r.value
           /\ sem_waiters' = r.waiters
           /\ sem_calls' = [sem_calls EXCEPT ![c].pc =
                               IF fut = "cancelled" \/ sem_calls[c].must_cancel
                               THEN "cancelled" ELSE "inner"]
    /\ SemFrame

\* how inner.translate ends
SemOutcomes == {"returned", "raised", "cancelled"}

\* inner.translate returns, raises or is cancelled: __aexit__ releases
SemInnerEnds(c, outcome) ==
    /\ c \in 1..Len(sem_calls) /\ sem_calls[c].pc = "inner"
    /\ LET r == Release(sem_value, sem_waiters)
       IN  /\ sem_value' = r.value
           /\ sem_waiters' = r.waiters
    /\ sem_calls' = [sem_calls EXCEPT ![c].pc = outcome]
    /\ SemFrame

NextSem ==
    \/ SemTranslate
    \/ \E c \in 1..MaxCalls : SemCancelWaiting(c) \/ SemAcquireResumes(c)
    \/ \E c \in 1..MaxCalls, outcome \in SemOutcomes : SemInnerEnds(c, outcome)

\* a semaphore of the given size and no call
InitSem(limit) ==
    /\ concurrency_limit = limit
    /\ sem_value = limit
    /\ sem_waiters = <<>>
    /\ sem_calls = <<>>

(***************************************************************************)
(* ClientHub.stop()                                                        *)
(***************************************************************************)
\* the translation tasks in _translation_tasks.values()
RegisteredTasks(tt) == {tt[id] : id \in DOMAIN tt}

\* task.cancel() on each of the given tasks
CancelTasks(ts, set) ==
    [k \in 1..Len(ts) |->
        IF k \in set /\ ts[k].pc \in {"created", "translating"}
        THEN [ts[k] EXCEPT !.pc = "cancelled"]
        ELSE ts[k]]

StopFrame ==
    /\ UNCHANGED <<llm, translation_enabled, fallback_transcript_only, hub_read, bundles,
                   ui_events, llm_calls, submits>>
    /\ UNCHANGED <<now, sttVars, oscVars, semVars, ringVars, gateVars, contextVars,
                   session_limit>>

\* stop() from "if self._stt_task:": the task is cancelled and gathered
StopCancelsSttTask(h) == [h EXCEPT !.stt_task = "cancelled", !.pc = "stt_task"]

\* stop() is called on a running hub: _running = False, then the flush task
\* (if start() created one) is cancelled and gathered
HubStop ==
    /\ hub_stop.pc = "none"
    /\ hub_stop' = IF hub_stop.osc_flush_task = "running"
                   THEN [hub_stop EXCEPT !.osc_flush_task = "cancelled", !.pc = "flush_task"]
                   ELSE StopCancelsSttTask(hub_stop)
    /\ UNCHANGED <<tasks, translation_tasks>>
    /\ StopFrame

\* the cancelled flush task has ended
HubStopFlushDone ==
    /\ hub_stop.pc = "flush_task"
    /\ hub_stop' = StopCancelsSttTask(hub_stop)
    /\ UNCHANGED <<tasks, translation_tasks>>
    /\ StopFrame

\* the cancelled _run_stt_event_loop task has ended: every task of
\* _translation_tasks is cancelled and they are gathered; with no task the
\* gather is done at once and the map is cleared
HubStopSttDone ==
    /\ hub_stop.pc = "stt_task"
    /\ tasks' = CancelTasks(tasks, RegisteredTasks(translation_tasks))
    /\ hub_stop' = [hub_stop EXCEPT
                       !.gathered = RegisteredTasks(translation_tasks),
                       !.pc = IF translation_tasks = <<>> THEN "stt_close"
                              ELSE "translation_tasks"]
    /\ UNCHANGED translation_tasks
    /\ StopFrame

\* the gathered translation tasks have ended: _translation_tasks.clear(),
\* then stt.close() is awaited
HubStopTasksDone ==
    /\ hub_stop.pc = "translation_tasks"
    /\ \A k \in hub_stop.gathered : tasks[k].pc \notin {"created", "translating"}
    /\ translation_tasks' = <<>>
    /\ hub_stop' = [hub_stop EXCEPT !.pc = "stt_close"]
    /\ UNCHANGED tasks
    /\ StopFrame

\* stt.close() has returned: llm.close() is awaited if there is an LLM
HubStopSttClosed ==
    /\ hub_stop.pc = "stt_close"
    /\ hub_stop' = [hub_stop EXCEPT !.stt_closed = TRUE,
                                    !.pc = IF llm THEN "llm_close" ELSE "returned"]
    /\ UNCHANGED <<tasks, translation_tasks>>
    /\ StopFrame

\* llm.close() has returned, and stop() returns
HubStopLlmClosed ==
    /\ hub_stop.pc = "llm_close"
    /\ hub_stop' = [hub_stop EXCEPT !.llm_closed = TRUE, !.pc = "returned"]
    /\ UNCHANGED <<tasks, translation_tasks>>
    /\ StopFrame

\* a started hub: start() has created the _run_stt_event_loop task and, with
\* auto_flush_osc, the flush task
InitStop(auto_flush_osc) ==
    hub_stop = [pc |-> "none", stt_task |-> "running",
                osc_flush_task |-> IF auto_flush_osc THEN "running" ELSE "none",
                gathered |-> {}, stt_closed |-> FALSE, llm_closed |-> FALSE]

\* the hub with a sender and an LLM that succeed, stopped at some point;
\* submit_text may be called until stop() has returned
NextHubStop ==
    \/ NextHubTasks
    \/ \E ev \in SttStreamEvents : SttPuts(ev)
    \/ \E text \in SubmitTexts : hub_stop.pc # "returned" /\ SubmitText(text, TRUE)
    \/ HubStop \/ HubStopFlushDone \/ HubStopSttDone \/ HubStopTasksDone
    \/ HubStopSttClosed \/ HubStopLlmClosed

(***************************************************************************)
(* RingBufferF32 on its own (core/audio/ring_buffer.py): append() and      *)
(* get_last_samples() called in any order.  The samples appended are       *)
(* numbered 1, 2, 3, ... so that every sample is told from every other and *)
(* from the zeros the buffer starts with.                                  *)
(***************************************************************************)
\* the largest capacity_samples
MaxRingCapacity == 4
\* the largest array passed to one append()
MaxAppendLen == 5
\* the most samples appended in all
MaxRingSamples == 7

RingFrame ==
    UNCHANGED <<now, sttVars, oscVars, hubVars, semVars, hub_stop, gateVars, contextVars,
                session_limit>>

\* appended: the number of samples appended when the call was made
NoGot == [count |-> 0, result |-> <<>>, appended |-> 0]

\* ring.append(samples) with the next size samples
RingAppendCall(size) ==
    /\ Len(ring_appended) + size <= MaxRingSamples
    /\ LET samples == Samples(Len(ring_appended), size)
       IN  /\ ring_buffer' = RingAppend(ring_buffer, samples)
           /\ ring_appended' = ring_appended \o samples
    /\ UNCHANGED ring_got
    /\ RingFrame

\* ring.get_last_samples(count)
RingGetCall(count) ==
    /\ ring_got' = [count |-> count, result |-> RingGetLastSamples(ring_buffer, count),
                    appended |-> Len(ring_appended)]
    /\ UNCHANGED <<ring_buffer, ring_appended>>
    /\ RingFrame

NextRing ==
    \/ \E size \in 0..MaxAppendLen : RingAppendCall(size)
    \/ \E count \in 0..(MaxRingCapacity + 1) : RingGetCall(count)

\* RingBufferF32(capacity_samples=cap)
InitRing(cap) ==
    /\ ring_buffer = RingInit(cap)
    /\ ring_appended = <<>>
    /\ ring_got = NoGot

(***************************************************************************)
(* VadGating (core/vad/gating.py).  Time is in milliseconds and the        *)
(* sample rate is one sample per millisecond; a probability is a number of *)
(* tenths.  Chunk k of the input holds the samples                         *)
(* (k-1)*chunk_samples+1 .. k*chunk_samples.                               *)
(***************************************************************************)
sample_rate_hz == 1000
chunk_samples == ChunkLen
\* VadGating.speech_threshold, in tenths
speech_threshold == 5
\* the probabilities the engine answers, in tenths
Probabilities == {0, 5, 9}
\* the largest ring_buffer_ms and hangover_ms
MaxRingBufferMs == 5
MaxHangoverMs == 4
\* the most chunks passed to process_chunk()
MaxChunks == 7

CeilDiv(a, b) == (a + b - 1) \div b

\* __init__: int(math.ceil(hangover_ms / chunk_ms)) if hangover_ms > 0 else 0
HangoverChunks(hangover_ms) ==
    IF hangover_ms > 0
    THEN CeilDiv(hangover_ms * sample_rate_hz, chunk_samples * 1000)
    ELSE 0

\* __init__: int(self.sample_rate_hz * (ring_buffer_ms / 1000.0))
CapacitySamples(ring_buffer_ms) == (sample_rate_hz * ring_buffer_ms) \div 1000

Chunk(k) == Samples((k - 1) * chunk_samples, chunk_samples)

\* the events; call is the number of the process_chunk() call that returned it
SpeechStart(id, pre_roll, chunk, call) ==
    [type |-> "SpeechStart", utterance_id |-> id, pre_roll |-> pre_roll,
     chunk |-> chunk, call |-> call]
SpeechChunk(id, chunk, call) ==
    [type |-> "SpeechChunk", utterance_id |-> id, pre_roll |-> <<>>,
     chunk |-> chunk, call |-> call]
SpeechEnd(id, call) ==
    [type |-> "SpeechEnd", utterance_id |-> id, pre_roll |-> <<>>,
     chunk |-> <<>>, call |-> call]

GateFrame == UNCHANGED <<now, sttVars, oscVars, hubVars, semVars, hub_stop, contextVars,
                         ring_got, hangover_chunks, session_limit>>

\* uuid.uuid4(): a value never drawn before
UuidDrawnAgain == Max2(gate_uuids, 1)
Uuid4 == gate_uuids + 1

\* "if self._silence_run >= self.hangover_chunks"
HangoverLate(run) == run > hangover_chunks
HangoverReached(run) == run >= hangover_chunks

\* self._ring.append(chunk)
GateRingAppendSkipped(chunk) ==
    UNCHANGED <<ring_buffer, ring_appended>>
GateRingAppend(chunk) ==
    /\ ring_buffer' = RingAppend(ring_buffer, chunk)
    /\ ring_appended' = ring_appended \o chunk

\* process_chunk(chunk), the engine answering prob
ProcessChunk(prob) ==
    /\ Len(gate_chunks) < MaxChunks
    /\ LET call == Len(gate_chunks) + 1
           chunk == Chunk(call)
       IN  /\ gate_chunks' = Append(gate_chunks, prob)
           /\ IF ~gate_in_speech
              THEN /\ IF prob >= speech_threshold
                      THEN /\ gate_in_speech' = TRUE
                           /\ gate_silence_run' = 0
                           /\ gate_utterance_id' = Uuid4
                           /\ gate_uuids' = gate_uuids + 1
                           /\ gate_events' = Append(gate_events,
                                  SpeechStart(Uuid4,
                                      RingGetLastSamples(ring_buffer, ring_buffer.capacity_samples),
                                      chunk, call))
                      ELSE UNCHANGED <<gate_in_speech, gate_silence_run, gate_utterance_id,
                                       gate_uuids, gate_events>>
                   /\ GateRingAppend(chunk)
              ELSE LET chunk_event == SpeechChunk(gate_utterance_id, chunk, call)
                   IN  IF prob >= speech_threshold
                       THEN /\ gate_silence_run' = 0
                            /\ gate_events' = Append(gate_events, chunk_event)
                            /\ UNCHANGED <<gate_in_speech, gate_utterance_id, gate_uuids,
                                           ring_buffer, ring_appended>>
                       ELSE /\ IF HangoverReached(gate_silence_run + 1)
                               THEN /\ gate_events' = gate_events \o
                                          <<chunk_event, SpeechEnd(gate_utterance_id, call)>>
                                    /\ gate_in_speech' = FALSE
                                    /\ gate_utterance_id' = None
                                    /\ gate_silence_run' = 0
                               ELSE /\ gate_events' = Append(gate_events, chunk_event)
                                    /\ gate_silence_run' = gate_silence_run + 1
                                    /\ UNCHANGED <<gate_in_speech, gate_utterance_id>>
                            /\ UNCHANGED gate_uuids
                            /\ GateRingAppend(chunk)
    /\ GateFrame

NextGate == \E prob \in Probabilities : ProcessChunk(prob)

\* VadGating(engine, sample_rate_hz=..., ring_buffer_ms=..., hangover_ms=...):
\* the fields other than the ring
InitGateFields(hangover_ms) ==
    /\ hangover_chunks = HangoverChunks(hangover_ms)
    /\ gate_in_speech = FALSE
    /\ gate_utterance_id = None
    /\ gate_silence_run = 0
    /\ gate_uuids = 0
    /\ gate_chunks = <<>>
    /\ gate_events = <<>>

InitGate(ring_buffer_ms, hangover_ms) ==
    /\ InitRing(CapacitySamples(ring_buffer_ms))
    /\ InitGateFields(hangover_ms)

(***************************************************************************)
(* The context memory of ClientHub (core/orchestrator/hub.py): the history *)
(* of requested translations and the context computed from it.  A          *)
(* ContextEntry of the source holds text and timestamp; the model adds     *)
(* to each entry the language pair the hub had when the entry was made,    *)
(* which the code does not store.                                          *)
(***************************************************************************)
\* ClientHub.context_time_window_s, in ticks, and ClientHub.context_max_entries
context_time_window_s == 2
context_max_entries == 2
\* the clock readings of the context model
MaxContextTime == 3
\* the texts translated: one character, two characters
ContextTexts == {<<"a">>, <<"o", "k">>}
Languages == {"ko", "ja"}

ContextEntry(text, timestamp) ==
    [text |-> text, timestamp |-> timestamp,
     source_language |-> source_language, target_language |-> target_language]

NoContext == [context |-> <<>>, history |-> <<>>, now |-> 0,
              source_language |-> "ko", target_language |-> "en"]

ContextFrame == UNCHANGED <<sttVars, oscVars, hubVars, semVars, hub_stop, ringVars, gateVars,
                            session_limit>>

\* _get_valid_context()
GetValidContext ==
    SelectSeq(LastN(translation_history, context_max_entries),
              LAMBDA entry : (now - entry.timestamp) < context_time_window_s)

\* _translate_and_enqueue up to the call of llm.translate: the context is
\* computed, then the text is appended to the history
TranslateWithContext(text) ==
    /\ llm_context' = [context |-> GetValidContext, history |-> translation_history,
                       now |-> now, source_language |-> source_language,
                       target_language |-> target_language]
    /\ LET appended == Append(translation_history, ContextEntry(text, now))
       IN  translation_history' =
               IF Len(appended) > context_max_entries THEN Tail(appended) ELSE appended
    /\ UNCHANGED <<now, source_language, target_language>>
    /\ ContextFrame

\* clear_context()
ClearContext ==
    /\ translation_history' = <<>>
    /\ UNCHANGED <<now, source_language, target_language, llm_context>>
    /\ ContextFrame

\* GuiController.apply_settings: the hub's languages are assigned
ApplySettings(source, target) ==
    /\ source_language' = source
    /\ target_language' = target
    /\ UNCHANGED <<now, translation_history, llm_context>>
    /\ ContextFrame

\* the clock advances
ContextTick ==
    /\ now < MaxContextTime
    /\ now' = now + 1
    /\ UNCHANGED contextVars
    /\ ContextFrame

NextContext ==
    \/ \E text \in ContextTexts : TranslateWithContext(text)
    \/ ClearContext
    \/ \E source \in Languages : ApplySettings(source, "en")
    \/ ContextTick

\* ClientHub(...): the defaults
InitContext ==
    /\ source_language = "ko"
    /\ target_language = "en"
    /\ translation_history = <<>>
    /\ llm_context = NoContext

\* the parts modelled on their own, at rest
\* the backend of a run opens at most limit sessions
InitSessions(limit) == session_limit = limit

InitUnits ==
    InitSem(1) /\ InitStop(FALSE) /\ InitGate(1, 0) /\ InitContext /\ InitSessions(MaxSessions)

(***************************************************************************)
(* Specifications                                                          *)
(***************************************************************************)
InitHub ==
    /\ llm \in BOOLEAN
    /\ translation_enabled \in BOOLEAN
    /\ fallback_transcript_only \in BOOLEAN
    /\ hub_read = 0
    /\ bundles = <<>>
    /\ translation_tasks = <<>>
    /\ tasks = <<>>
    /\ ui_events = <<>>
    /\ llm_calls = <<>>
    /\ submits = 0

\* the hub in any configuration
InitAny == InitStt /\ InitOsc /\ InitHub /\ InitUnits

\* the hub as ClientHub's defaults configure it, with an LLM provider
InitDefault ==
    /\ InitStt /\ InitOsc /\ InitHub /\ InitUnits
    /\ llm = TRUE /\ translation_enabled = TRUE /\ fallback_transcript_only = FALSE

\* the controller alone, with a backend whose calls succeed
SpecStt == InitDefault /\ [][NextStt]_vars

\* the controller alone, with a failing backend
SpecSttFaults == InitDefault /\ [][NextSttFaults]_vars

\* the semaphore provider alone, for every size of the semaphore
InitSemAny ==
    /\ InitStt /\ InitOsc /\ InitHub
    /\ llm = TRUE /\ translation_enabled = TRUE /\ fallback_transcript_only = FALSE
    /\ \E limit \in 1..MaxPermits : InitSem(limit)
    /\ InitStop(FALSE) /\ InitGate(1, 0) /\ InitContext /\ InitSessions(MaxSessions)
SpecSem == InitSemAny /\ [][NextSem]_vars

\* the hub in any configuration, started with or without the flush task
InitHubStop ==
    /\ InitStt /\ InitOsc /\ InitHub /\ InitSem(1)
    /\ \E auto_flush_osc \in BOOLEAN : InitStop(auto_flush_osc)
    /\ InitGate(1, 0) /\ InitContext /\ InitSessions(MaxSessions)
SpecHubStop == InitHubStop /\ [][NextHubStop]_vars

\* the ring buffer alone, of every capacity
InitRingAny ==
    /\ InitStt /\ InitOsc /\ InitHub /\ InitSem(1) /\ InitStop(FALSE)
    /\ llm = TRUE /\ translation_enabled = TRUE /\ fallback_transcript_only = FALSE
    /\ InitGateFields(0) /\ InitContext /\ InitSessions(MaxSessions)
    /\ \E cap \in 1..MaxRingCapacity : InitRing(cap)
SpecRing == InitRingAny /\ [][NextRing]_vars

\* the gate alone, with every ring_buffer_ms and hangover_ms
InitGateAny ==
    /\ InitStt /\ InitOsc /\ InitHub /\ InitSem(1) /\ InitStop(FALSE)
    /\ llm = TRUE /\ translation_enabled = TRUE /\ fallback_transcript_only = FALSE
    /\ InitContext /\ InitSessions(MaxSessions)
    /\ \E ring_buffer_ms \in 1..MaxRingBufferMs, hangover_ms \in 0..MaxHangoverMs :
           InitGate(ring_buffer_ms, hangover_ms)
SpecGate == InitGateAny /\ [][NextGate]_vars

\* the context memory alone
SpecContext == InitDefault /\ [][NextContext]_vars

\* bundles, their methods called in any order
SpecBundle == InitAny /\ [][NextBundle]_vars

\* the controller, closed at some point
SpecSttClose == InitDefault /\ [][NextSttClose]_vars

\* the hub alone, fed with the events of a controller
SpecHub == InitAny /\ [][NextHub]_vars

\* one utterance from the VAD to the chatbox, shorter than reset_deadline_s
\* (the clock stands still): the controller, a backend that yields one final
\* transcript, the hub started with auto_flush_osc=False, an LLM and a
\* sender that succeed
NextE2E ==
    \/ utterances = 0 /\ VadSpeechStart
    \/ VadSpeechChunk \/ VadSpeechEnd
    \/ VadEnsureOpenDone \/ VadSendPreDone \/ VadSendChunkDone \/ VadSpeechEndDone
    \/ \E s \in 1..MaxSessions, text \in BackendTexts :
         backend_events = 0 /\ ConsumeEvent(s, TRUE, text)
    \/ NextHubTasks

\* the event loop runs every task that is ready, and the LLM answers
FairE2E ==
    /\ WF_vars(HubSttEvent(TRUE))
    /\ WF_vars(\E k \in 1..Len(tasks) : TranslateStart(k))
    /\ WF_vars(\E k \in 1..Len(tasks), translation \in LlmTexts :
                 TranslateDone(k, translation, TRUE))

SpecE2E == InitAny /\ [][NextE2E]_vars /\ FairE2E

\* the OSC queue alone
SpecOsc == InitDefault /\ [][NextOsc]_vars

\* the controller closed and warmed up again
SpecSttReopen == InitDefault /\ [][NextSttReopen]_vars

\* the controller with a backend that opens up to MaxOverlapSessions
\* sessions, so that the timer's reset and a VAD event's reset of the same
\* session can both be in open_session()
InitOverlap ==
    /\ InitStt /\ InitOsc /\ InitHub
    /\ llm = TRUE /\ translation_enabled = TRUE /\ fallback_transcript_only = FALSE
    /\ InitSem(1) /\ InitStop(FALSE) /\ InitGate(1, 0) /\ InitContext
    /\ InitSessions(MaxOverlapSessions)
SpecSttOverlap == InitOverlap /\ [][NextSttTasks]_vars

(***************************************************************************)
(* Claims about the managed STT controller                                 *)
(***************************************************************************)
\* the sessions whose audio is still transcribed for the controller: the
\* active session and every session handed to _drain_and_close
Transcribed(s) == s = active_session \/ sessions[s].drain_started

\* C1: no audio is lost across a bridging reset.  Whenever no hand-over is
\* in progress, every sample that was sent to some session is in the audio
\* of the active session or of an old session that was handed to
\* _drain_and_close (stopped and drained), whether the VAD path or the
\* deadline timer did the reset (SpecStt has no failing backend call).
C1_NoAudioLost ==
    vad.pc # "bridge_send" =>
        \A s \in 1..Len(sessions) : \A k \in Range(sessions[s].audio) :
            \E t \in 1..Len(sessions) : k \in Range(sessions[t].audio) /\ Transcribed(t)

\* C2: a SpeechStart/SpeechChunk handled with elapsed >= reset_deadline_s
\* opens a new session that replaces the active one together with its
\* consumer, sends it the last bridging_ms of the audio sent before (all of
\* it if there was less) ahead of the audio of the event, and hands the old
\* session to a drain task that starts at stop().
C2_BridgingReset ==
    [][/\ VadBridgeOpenDone =>
            /\ active_session' = Len(sessions') /\ consumer_task' = Len(sessions')
            /\ sessions'[active_session'].audio = <<>>
       /\ VadBridgeSendDone =>
            /\ IsPrefix(resets[vad.reset].expected, sessions'[vad.new].audio)
            /\ \E d \in draining' :
                 drains'[d] = NewDrain(vad.old_session, vad.old_consumer)]_vars

\* C3: when the deadline timer fires with no active session it does
\* nothing; with an active session and no utterance it starts the silence
\* reset; with an active session and an utterance it carries out the whole
\* bridging reset: the new session is active, the bridging ring has been
\* replayed into it and the old session is owned by a drain task.  A silence
\* reset that the timer has begun goes on to stop and close the session.
C3_TimerReset ==
    [][/\ (TimerFire /\ active_session = None) =>
            UNCHANGED <<state, active_session, consumer_task, sessions, events>>
       /\ (TimerFire /\ active_session # None /\ active_utterance_id = None) =>
            /\ active_session' = None /\ state' = "DRAINING"
            /\ sessions'[active_session].drain_started
       /\ (TimerFire /\ active_session # None /\ active_utterance_id # None) =>
            timer'.pc = "open"
       /\ TimerOpenDone =>
            /\ active_session' = Len(sessions')
            /\ IsPrefix(timer.bridging, sessions'[active_session'].audio)
            /\ \E d \in draining' :
                 drains'[d] = NewDrain(timer.old_session, timer.old_consumer)
       /\ (timer.pc \in {"stop", "wait", "close"} /\ timer'.pc # timer.pc) =>
            \/ TimerStopDone
            \/ TimerWaitDone /\ timer'.pc = "close"
            \/ TimerCloseDone /\ sessions'[timer.old_session].closed]_vars

\* C4: for every utterance id the controller's event stream holds at most
\* one STTFinalEvent.
FinalsFor(id) == {i \in 1..Len(events) : events[i].type = "final" /\ events[i].id = id}
C4_AtMostOneFinal == \A id \in 1..MaxUtterances : Cardinality(FinalsFor(id)) <= 1

(***************************************************************************)
(* Claims about the hub's translations                                     *)
(***************************************************************************)
\* the utterance ids of the hub: those of the VAD and those of submit_text
HubIds == 1..(MaxUtterances + MaxHubInputs)

\* the translation tasks of an id, and those that have not finished running
TasksFor(id) == {k \in 1..Len(tasks) : tasks[k].id = id}
InFlight(id) == {k \in TasksFor(id) : tasks[k].pc \in {"created", "translating"}}

\* C5: at any time at most one translation task is in flight per utterance
\* id, and while a translation for an id is in flight no step (a further
\* final transcript or a submit) starts a second task for that id.
C5_OneTaskInFlight ==
    /\ [](\A id \in HubIds : Cardinality(InFlight(id)) <= 1)
    /\ [][\A id \in HubIds : InFlight(id) # {} => TasksFor(id)' = TasksFor(id)]_vars

\* a second final transcript for an id was handled while the translation of
\* the first was in flight, and the id has that one task only
C5_Witness ==
    \E id \in 1..MaxUtterances :
        /\ Cardinality({i \in 1..hub_read : events[i].type = "final" /\ events[i].id = id}) >= 2
        /\ Cardinality(TasksFor(id)) = 1
        /\ InFlight(id) # {}

\* C6: over a whole run llm.translate is called at most once and at most one
\* TRANSLATION_DONE event is emitted for any utterance id.
TranslateCalls(id) == {i \in 1..Len(llm_calls) : llm_calls[i].id = id}
TranslationsDone(id) ==
    {i \in 1..Len(ui_events) :
        ui_events[i].type = "TRANSLATION_DONE" /\ ui_events[i].utterance_id = id}
C6_OneTranslationPerId ==
    \A id \in HubIds :
        Cardinality(TranslateCalls(id)) <= 1 /\ Cardinality(TranslationsDone(id)) <= 1

(***************************************************************************)
(* Claims about the whole pipeline                                         *)
(***************************************************************************)
\* the backend has yielded a final transcript with this text for the utterance
FinalYielded(text) ==
    \E i \in 1..Len(events) : events[i].type = "final" /\ events[i].text = text

\* the chatbox texts the claim names for a transcript
ChatboxTexts(text) ==
    IF llm /\ translation_enabled
    THEN {text \o <<" ", "(">> \o translation \o <<")">> : translation \in LlmTexts}
    ELSE {text}

\* the one chatbox call was made and carried the text the claim names
SentAsStated ==
    \E text \in BackendTexts :
        FinalYielded(text) /\ Len(sent) = 1 /\ sent[1].text \in ChatboxTexts(text)

FitsChatbox(text) ==
    /\ text # <<>> /\ Strip(text) = text
    /\ \A c \in ChatboxTexts(text) : Len(c) <= max_chars

\* what the queue does with the chatbox text of a transcript: no call if it
\* is blank, else one call with its stripped text or the first part of it
SentAsQueued(text) ==
    IF \A c \in ChatboxTexts(text) : IsBlank(c)
    THEN sent = <<>>
    ELSE /\ Len(sent) = 1
         /\ Len(sent[1].text) <= max_chars
         /\ \E c \in ChatboxTexts(text) : IsPrefix(sent[1].text, Strip(c))
         /\ FitsChatbox(text) => sent[1].text \in ChatboxTexts(text)

CallMade == Len(sent') = Len(sent) + 1
LastCall == sent'[Len(sent')]

\* a step that runs process_due (every step of the queue but the clock's)
ProcessDueRuns == now' = now /\ <<pending, next_send_at, sent, enqueued>> # <<pending', next_send_at', sent', enqueued'>>

\* the pending list process_due starts from in this step
EntryPending ==
    IF Len(enqueued') = Len(enqueued) + 1
    THEN Append(pending, enqueued'[Len(enqueued')])
    ELSE pending

\* the messages of p that are not older than ttl_s at time t
Fresh(p, t) == SelectSeq(p, LAMBDA m : t - m.created_at <= ttl_s)

\* the texts of p that are not empty, joined by single spaces and stripped
MergedText(p) ==
    Strip(JoinSp(SelectSeq([i \in 1..Len(p) |-> p[i].text], LAMBDA x : x # <<>>)))

\* C8, as stated: any two send_chatbox calls are at least cooldown_s apart;
\* a message enqueued during the cooldown stays pending; the first
\* process_due at or after the end of the cooldown sends everything that is
\* pending merged in one call.
C8_OneSendPerWindow ==
    [][/\ \A i, j \in 1..Len(sent') : i < j => sent'[j].at - sent'[i].at >= cooldown_s
       /\ (ProcessDueRuns /\ InCooldown(now, next_send_at)) =>
            (sent' = sent /\ pending' = EntryPending)
       /\ (ProcessDueRuns /\ ~InCooldown(now, next_send_at) /\ EntryPending # <<>>) =>
            (CallMade /\ LastCall.text = MergedText(EntryPending))]_vars

\* C8, amended: after a send_chatbox call that returned, no call is made for
\* cooldown_s (a call that raised starts no cooldown); a message enqueued
\* during the cooldown stays pending; the first process_due at or after the
\* end of the cooldown drops the messages older than ttl_s and passes the
\* others, merged, to one send_chatbox call: the whole merged text if it
\* fits in max_chars, else its first part.
C8_CooldownAmended ==
    [][/\ \A i, j \in 1..Len(sent') :
            (i < j /\ sent'[i].ok) => sent'[j].at - sent'[i].at >= cooldown_s
       /\ (ProcessDueRuns /\ InCooldown(now, next_send_at)) =>
            (sent' = sent /\ pending' = EntryPending)
       /\ (ProcessDueRuns /\ ~InCooldown(now, next_send_at) /\ EntryPending # <<>>) =>
            LET fresh == Fresh(EntryPending, now)
                merged == MergedText(fresh)
            IN  IF merged = <<>>
                THEN sent' = sent /\ pending' = <<>>
                ELSE /\ CallMade
                     /\ LastCall.batch = fresh
                     /\ IsPrefix(LastCall.text, merged)
                     /\ Len(LastCall.text) <= max_chars
                     /\ Len(merged) <= max_chars => LastCall.text = merged
                     /\ LastCall.ok => next_send_at' = now + cooldown_s]_vars

\* two messages were enqueued during a cooldown and sent merged at its end
C8_Witness ==
    \E j \in 2..Len(sent) :
        /\ sent[j - 1].ok /\ sent[j].ok
        /\ sent[j].at - sent[j - 1].at = cooldown_s
        /\ Len(sent[j].batch) >= 2
        /\ \A k \in 1..Len(sent[j].batch) : sent[j].batch[k].created_at > sent[j - 1].at

\* C9: no message passed to send_chatbox is older than ttl_s at the time of
\* the call, whether it was held back by the cooldown or is the remainder of
\* a paginated batch; the remainder carries the earliest created_at of the
\* batch it was cut from.
C9_NoExpiredSent ==
    [][/\ \A i \in 1..Len(sent') : \A k \in 1..Len(sent'[i].batch) :
            sent'[i].at - sent'[i].batch[k].created_at <= ttl_s
       /\ (CallMade /\ LastCall.ok /\ pending' # <<>>) =>
            /\ Len(pending') = 1
            /\ \A k \in 1..Len(LastCall.batch) :
                 pending'[1].created_at <= LastCall.batch[k].created_at
            /\ \E k \in 1..Len(LastCall.batch) :
                 pending'[1].created_at = LastCall.batch[k].created_at]_vars

\* a paginated remainder was sent when it was exactly ttl_s old, after a
\* younger message had been merged into it
C9_Witness ==
    \E i \in 2..Len(sent) :
        /\ sent[i].ok /\ sent[i - 1].ok
        /\ sent[i].batch[1].utterance_id = sent[i - 1].batch[1].utterance_id
        /\ sent[i].at - sent[i].batch[1].created_at = ttl_s
        /\ Len(sent[i].batch) >= 2

\* C10, as stated: when send_chatbox raises, process_due leaves the pending
\* list and next_send_at as they were.
C10_FailedSendKeepsQueue ==
    [][(CallMade /\ ~LastCall.ok) =>
            (pending' = EntryPending /\ next_send_at' = next_send_at)]_vars

\* C10, amended: when send_chatbox raises, process_due leaves next_send_at
\* as it was and leaves pending the messages that are not older than ttl_s
\* (the older ones were dropped before the call), which is the batch of the
\* failed call, so that the next process_due tries again.
C10_FailedSendAmended ==
    [][(CallMade /\ ~LastCall.ok) =>
            /\ pending' = Fresh(EntryPending, now)
            /\ pending' = LastCall.batch /\ pending' # <<>>
            /\ next_send_at' = next_send_at
            /\ ~InCooldown(now', next_send_at')]_vars

\* a call raised and the next call sent the same batch
C10_Witness ==
    \E j \in 1..(Len(sent) - 1) :
        ~sent[j].ok /\ sent[j + 1].ok /\ sent[j + 1].batch = sent[j].batch

\* C11: a message whose send_chatbox call raised is dropped: no later call
\* carries it.
C11_FailedSendDropped ==
    \A i, j \in 1..Len(sent) :
        (i < j /\ ~sent[i].ok) => Range(sent[i].batch) \cap Range(sent[j].batch) = {}

\* the parts of the text combined from a batch, and the message that carries
\* the parts after the first
PartsOf(batch) == SplitText(MergedText(batch))
Remainder(batch) ==
    OSCMessage(batch[1].utterance_id, JoinSp(Tail(PartsOf(batch))), MinCreatedAt(batch))

\* the calls that returned and left a remainder behind
Paginated == {i \in 1..Len(sent) : sent[i].ok /\ Len(PartsOf(sent[i].batch)) > 1}

\* C12, as stated: every text sent has at most max_chars characters; a call
\* for a longer combined text carries its first part and leaves pending the
\* one message with the other parts, the head's utterance id and the
\* earliest created_at; every remainder goes on to be sent.
C12_Pagination ==
    [][/\ \A i \in 1..Len(sent') : Len(sent'[i].text) <= max_chars
       /\ (CallMade /\ Len(PartsOf(LastCall.batch)) > 1) =>
            /\ LastCall.text = PartsOf(LastCall.batch)[1]
            /\ pending' = <<Remainder(LastCall.batch)>>
       /\ \A i \in Paginated :
            (pending = <<Remainder(sent[i].batch)>> /\ ProcessDueRuns
             /\ Remainder(sent[i].batch) \notin Range(pending')) =>
                (CallMade /\ LastCall.batch[1] = Remainder(sent[i].batch))]_vars

\* C12, amended: every text sent has at most max_chars characters; a call
\* for a longer combined text carries its first part and, if it returns,
\* leaves pending the one message with the other parts, the head's utterance
\* id and the earliest created_at (if it raises, the batch stays pending).
\* The remainder leaves the queue at a later process_due either at the head
\* of a call that returns, whose text starts the text combined from it, or
\* unsent because it is older than ttl_s.
C12_PaginationAmended ==
    [][/\ \A i \in 1..Len(sent') : Len(sent'[i].text) <= max_chars
       /\ (CallMade /\ Len(PartsOf(LastCall.batch)) > 1) =>
            /\ LastCall.text = PartsOf(LastCall.batch)[1]
            /\ pending' = IF LastCall.ok THEN <<Remainder(LastCall.batch)>>
                          ELSE LastCall.batch
       /\ \A i \in Paginated :
            (Remainder(sent[i].batch) \in Range(pending)
             /\ Remainder(sent[i].batch) \notin Range(pending')) =>
                \/ /\ CallMade /\ LastCall.ok
                   /\ LastCall.batch[1] = Remainder(sent[i].batch)
                   /\ IsPrefix(LastCall.text, MergedText(LastCall.batch))
                \/ now - Remainder(sent[i].batch).created_at > ttl_s]_vars

\* a remainder was left behind by one call and sent by the next
C12_Witness ==
    \E i \in Paginated :
        /\ i < Len(sent) /\ sent[i + 1].ok
        /\ sent[i + 1].batch = <<Remainder(sent[i].batch)>>
        /\ sent[i + 1].text = Remainder(sent[i].batch).text

(***************************************************************************)
(* Claims about the controller's states, close() and failures              *)
(***************************************************************************)
\* the last event on the controller's stream
LastEvent(log) == log[Len(log)]

\* C13: a SpeechEnd handled when reset_deadline_s has elapsed starts the
\* silence reset, which stops the session, waits for its consumer, closes
\* the session and ends in state Disconnected with no active session and a
\* Disconnected state event; the SpeechStart after it opens a fresh session
\* and the state is Streaming again.
C13_SilenceReset ==
    [][/\ (VadSpeechEndDone /\ active_session # None
           /\ DeadlineElapsed(session_started_at, now)) =>
            (vad'.pc = "silence_stop" /\ state' = "DRAINING" /\ active_session' = None)
       /\ (vad.pc = "silence_stop" /\ vad' # vad) =>
            (vad'.pc = "silence_wait" /\ sessions'[vad.old_session].stopped)
       /\ (vad.pc = "silence_wait" /\ vad' # vad) => vad'.pc = "silence_close"
       /\ (vad.pc = "silence_close" /\ vad' # vad) =>
            /\ sessions'[vad.old_session].stopped /\ sessions'[vad.old_session].closed
            /\ state' = "DISCONNECTED" /\ active_session' = None
            /\ LastEvent(events') = StateEvent("DISCONNECTED")
            /\ vad'.pc = "idle" /\ ~vad'.raised
       /\ (VadSpeechStart /\ active_session = None) => vad'.pc = "ensure_open"
       /\ VadEnsureOpenDone =>
            /\ active_session' = Len(sessions') /\ Len(sessions') = Len(sessions) + 1
            /\ state' = "STREAMING"]_vars

\* the edges of the session state machine
StateEdges ==
    {<<"DISCONNECTED", "STREAMING">>, <<"STREAMING", "DRAINING">>,
     <<"DRAINING", "DISCONNECTED">>}

\* C14: the session state is Disconnected at first and changes only along
\* Disconnected->Streaming, Streaming->Draining and Draining->Disconnected;
\* a bridging reset (from the VAD path or from the timer) leaves it Streaming.
C14_StateEdges ==
    /\ (state = "DISCONNECTED" \/ events # <<>> \/ vad_calls > 0)
    /\ [][/\ state' # state => <<state, state'>> \in StateEdges
          /\ (VadBridgeOpenDone \/ VadBridgeSendDone \/ TimerOpenDone) =>
               (state = "STREAMING" /\ state' = "STREAMING")]_vars

\* close() has been called on session s: it has returned, or the task that
\* called it is (or was, when it was cancelled) suspended in it
CloseCalled(s) ==
    \/ sessions[s].closed
    \/ \E d \in 1..Len(drains) :
         drains[d].session = s /\ drains[d].pc \in {"close", "close_cancelled"}
    \/ timer.pc \in {"close", "close_cancelled"} /\ timer.old_session = s
    \/ closer.pc = "session" /\ closer.session = s

\* C15: when close() has returned the state is Disconnected, there is no
\* active session, no consumer task and no timer is left running, and
\* close() has been called on every session the backend ever opened.
C15_CloseReleasesAll ==
    closer.pc = "returned" =>
        /\ state = "DISCONNECTED"
        /\ active_session = None
        /\ consumer_task = None
        /\ timer.pc \in {"none", "done", "close_cancelled"}
        /\ \A s \in 1..Len(sessions) : CloseCalled(s)

\* close() returns and leaves unclosed a session that a bridging reset had
\* handed to a drain task
C15_DrainCancelled ==
    /\ closer.pc = "returned"
    /\ \E d \in 1..Len(drains) :
         drains[d].pc = "cancelled" /\ ~CloseCalled(drains[d].session)

\* C16: whenever backend.open_session raises, on the first connect or during
\* a bridging reset, an STTErrorEvent is put on the controller's stream and
\* the exception is raised to the caller of handle_vad_event; after a failed
\* first connect the state is still Disconnected and no session is active.
C16_OpenFailureSurfaced ==
    [][/\ (VadEnsureOpenFail \/ VadBridgeOpenFail \/ TimerOpenFail) =>
            /\ events' = Append(events, ErrorEvent("open"))
            /\ vad'.pc = "idle" /\ vad'.raised
       /\ (VadEnsureOpenFail /\ state = "DISCONNECTED") =>
            (state' = "DISCONNECTED" /\ active_session' = None)]_vars

\* a backend failure is the last thing that happened: the last
\* handle_vad_event call raised, or the last event on the stream is an error
JustFailed ==
    \/ vad.pc = "idle" /\ vad.raised
    \/ events # <<>> /\ LastEvent(events).type = "error"

\* C17: after a backend failure (open_session, send_audio or the event
\* stream of the session raised) the next SpeechStart or SpeechChunk calls
\* backend.open_session for a fresh session.
C17_RetryOpensFresh ==
    [][((VadSpeechStart \/ VadSpeechChunk) /\ JustFailed) =>
           vad'.pc = "ensure_open"]_vars

\* C18: a failure of the session layer (open_session, send_audio, the event
\* stream) is put on the stream as an error event and is not raised to the
\* caller of handle_vad_event.  ClientHub.handle_vad_event awaits the
\* controller's handle_vad_event and run_audio_vad_loop awaits the hub's, both
\* without a handler, so what the controller raises (vad.raised) reaches the
\* audio/VAD loop and ends it.
C18_ErrorsOnlyEvents ==
    [][(\/ VadEnsureOpenFail \/ VadBridgeOpenFail \/ VadBridgeSendFail \/ VadSendFail
        \/ \E s \in 1..MaxSessions : ConsumerStreamError(s)) =>
           /\ Len(events') = Len(events) + 1 /\ LastEvent(events').type = "error"
           /\ ~vad'.raised]_vars

(***************************************************************************)
(* Claims about the hub's failures and its transcript events               *)
(***************************************************************************)
\* the UI events and the OSC messages a step adds
NewUIEvents == SubSeq(ui_events', Len(ui_events) + 1, Len(ui_events'))
NewEnqueued == SubSeq(enqueued', Len(enqueued) + 1, Len(enqueued'))

\* C19: when llm.translate raises an error other than a cancellation, the
\* task puts an ERROR UI event with its utterance id and no TRANSLATION_DONE
\* event, and it enqueues an OSC message, whose text is the transcript alone,
\* exactly when fallback_transcript_only is set; a cancelled task puts no UI
\* event and enqueues nothing.
C19_TranslateFailure ==
    [][/\ \A k \in 1..Len(tasks) :
            (\E ok \in BOOLEAN : TranslateFail(k, ok)) =>
              /\ NewUIEvents # <<>>
              /\ NewUIEvents[1] = UIEvent("ERROR", tasks[k].id, <<>>)
              /\ \A i \in 1..Len(NewUIEvents) : NewUIEvents[i].type # "TRANSLATION_DONE"
              /\ NewEnqueued = IF fallback_transcript_only
                               THEN <<OSCMessage(tasks[k].id, tasks[k].text, now)>>
                               ELSE <<>>
       /\ TranslationsCancelled =>
            (NewUIEvents = <<>> /\ NewEnqueued = <<>> /\ sent' = sent)]_vars

\* a translation failed with the fallback set, and a translation was cancelled
C19_Witness ==
    /\ fallback_transcript_only
    /\ \E i \in 1..Len(ui_events) : \E j \in 1..Len(enqueued) :
         /\ ui_events[i].type = "ERROR" /\ ui_events[i].utterance_id # None
         /\ enqueued[j].utterance_id = ui_events[i].utterance_id
    /\ HubStopped

\* in log, a partial transcript for an id comes after a final one for it
PartialAfterFinal(log, final, partial) ==
    \E i, j \in 1..Len(log) :
        /\ i < j
        /\ log[i].type = final /\ log[j].type = partial
        /\ log[i].id = log[j].id

\* the ids of the UI events, under the field name of the STT events
UIEventIds == [i \in 1..Len(ui_events) |->
                  [type |-> ui_events[i].type, id |-> ui_events[i].utterance_id]]

\* C20: on the UI event stream no TRANSCRIPT_PARTIAL event for an utterance
\* id follows a TRANSCRIPT_FINAL event for the same id.
C20_NoPartialAfterFinal ==
    ~PartialAfterFinal(UIEventIds, "TRANSCRIPT_FINAL", "TRANSCRIPT_PARTIAL")

\* the controller itself has put a partial transcript for an id after a
\* final one for it
C20_ControllerAdmits == PartialAfterFinal(events, "final", "partial")

(***************************************************************************)
(* Claims about UtteranceBundle                                            *)
(***************************************************************************)
\* C21: in every state of a bundle a final excludes a partial; setting a
\* final clears the partial, and a partial given to a bundle that has a final
\* leaves the bundle as it was, whatever the order of with_transcript and
\* with_translation calls.
C21_FinalExcludesPartial ==
    /\ [](\A id \in DOMAIN bundles :
            bundles[id].final # NoText => bundles[id].partial = NoText)
    /\ [][\A id \in 1..MaxUtterances, text \in BundleTexts :
            /\ BundleWithTranscript(id, text, TRUE) =>
                 (bundles'[id].final = SomeText(text) /\ bundles'[id].partial = NoText)
            /\ (/\ BundleWithTranscript(id, text, FALSE)
                /\ id \in DOMAIN bundles /\ bundles[id].final # NoText) =>
                 bundles' = bundles]_vars

\* a bundle holds a final transcript and a translation, and another one a
\* partial transcript
C21_Witness ==
    /\ \E id \in DOMAIN bundles :
         bundles[id].final # NoText /\ bundles[id].translation # NoText
    /\ \E id \in DOMAIN bundles : bundles[id].partial # NoText

(***************************************************************************)
(* Claims about SemaphoreLLMProvider                                       *)
(***************************************************************************)
SemInside == {c \in 1..Len(sem_calls) : sem_calls[c].pc = "inner"}
SemAllEnded == \A c \in 1..Len(sem_calls) : sem_calls[c].pc \in SemOutcomes

\* C22: at most concurrency_limit inner translate calls run at a time, and
\* once every call has ended (returned, raised or cancelled) the semaphore
\* has all its permits again.
C22_SemaphoreBounds ==
    /\ Cardinality(SemInside) <= concurrency_limit
    /\ sem_value >= 0
    /\ SemAllEnded => (sem_value = concurrency_limit /\ sem_waiters = <<>>)

\* three calls have ended, one of which had to wait for a permit and
\* returned, and one of which was cancelled
C22_Witness ==
    /\ SemAllEnded /\ Len(sem_calls) >= 3
    /\ \E c \in 1..Len(sem_calls) : sem_calls[c].waited /\ sem_calls[c].pc = "returned"
    /\ \E c \in 1..Len(sem_calls) : sem_calls[c].pc = "cancelled"

(***************************************************************************)
(* Claims about ClientHub.stop()                                           *)
(***************************************************************************)
\* no task of the hub is running and the translation-task map is empty
HubQuiescent ==
    /\ hub_stop.osc_flush_task # "running"
    /\ hub_stop.stt_task # "running"
    /\ \A k \in 1..Len(tasks) : tasks[k].pc \notin {"created", "translating"}
    /\ translation_tasks = <<>>

\* C23: stop() cancels and awaits the flush task, the STT event loop and
\* every translation task in flight, then closes the STT controller and the
\* LLM; when it returns no task of the hub is running and the
\* translation-task map is empty; cancelling the translations puts no UI
\* event and enqueues no OSC message.
C23_StopIsClean ==
    [][/\ (hub_stop.pc # "returned" /\ hub_stop'.pc = "returned") =>
            /\ HubQuiescent'
            /\ hub_stop'.stt_closed /\ (llm => hub_stop'.llm_closed)
       /\ HubStopSttDone => (NewUIEvents = <<>> /\ NewEnqueued = <<>>)]_vars

(***************************************************************************)
(* Claims about the VAD gate                                               *)
(***************************************************************************)
EventsOf(id) == SelectSeq(gate_events, LAMBDA e : e.utterance_id = id)
EventCalls(type) == {i \in DOMAIN gate_events : gate_events[i].type = type}
GateInProgress(id) == gate_in_speech /\ gate_utterance_id = id

\* C24: for any sequence of process_chunk calls, the events of each
\* utterance id are one SpeechStart, then SpeechChunks, then one SpeechEnd
\* (which only the utterance still in progress lacks); no event carries an id
\* after that id's SpeechEnd, and a SpeechStart comes only after the
\* SpeechEnd of every utterance before it.
C24_UtteranceShape ==
    /\ \A i \in DOMAIN gate_events : gate_events[i].utterance_id \in 1..gate_uuids
    /\ \A id \in 1..gate_uuids :
          LET evs == EventsOf(id)
          IN  /\ Len(evs) >= 1
              /\ evs[1].type = "SpeechStart"
              /\ \A i \in 2..Len(evs) : evs[i].type # "SpeechStart"
              /\ \A i \in 1..(Len(evs) - 1) : evs[i].type # "SpeechEnd"
              /\ (evs[Len(evs)].type = "SpeechEnd") <=> ~GateInProgress(id)
    /\ \A i \in EventCalls("SpeechStart") : \A j \in 1..(i - 1) :
          \E k \in j..(i - 1) :
              /\ gate_events[k].type = "SpeechEnd"
              /\ gate_events[k].utterance_id = gate_events[j].utterance_id

\* two utterances have ended, one of them with SpeechChunks between its
\* SpeechStart and its SpeechEnd, and a third is in progress
C24_Witness ==
    /\ Cardinality(EventCalls("SpeechEnd")) >= 2
    /\ \E id \in 1..gate_uuids : Len(EventsOf(id)) >= 4
    /\ gate_in_speech

Below(prob) == prob < speech_threshold
AllBelow(lo, hi) == \A c \in lo..hi : Below(gate_chunks[c])
StartCallOf(id) ==
    (CHOOSE e \in Range(gate_events) :
        e.type = "SpeechStart" /\ e.utterance_id = id).call
EndCallsOf(id) ==
    {gate_events[i].call : i \in {j \in EventCalls("SpeechEnd") :
                                     gate_events[j].utterance_id = id}}
\* the length of the run of below-threshold chunks that ends an utterance:
\* hangover_chunks, and one chunk when hangover_chunks is 0
HangoverRun == Max2(hangover_chunks, 1)

\* C25: a sequence with no probability >= speech_threshold yields no
\* SpeechStart; after a SpeechStart, as soon as hangover_chunks consecutive
\* chunks below the threshold were fed the utterance has exactly one
\* SpeechEnd; a SpeechEnd comes only at the end of such a run, so a shorter
\* run followed by a chunk at or above the threshold yields none.
C25_Hangover ==
    /\ AllBelow(1, Len(gate_chunks)) => gate_events = <<>>
    /\ \A id \in 1..gate_uuids :
          LET s == StartCallOf(id)
          IN  /\ \A c \in (s + HangoverRun)..Len(gate_chunks) :
                    AllBelow(c - HangoverRun + 1, c) =>
                        \E e \in EndCallsOf(id) : e <= c /\ EndCallsOf(id) = {e}
              /\ \A e \in EndCallsOf(id) :
                    e - HangoverRun >= s /\ AllBelow(e - HangoverRun + 1, e)

\* with hangover_chunks = 2: an utterance that went through a chunk below
\* the threshold, then one at the threshold, and ended two chunks later
C25_Witness ==
    /\ hangover_chunks = 2
    /\ \E id \in 1..gate_uuids : \E e \in EndCallsOf(id) :
          /\ e - 3 > StartCallOf(id)
          /\ Below(gate_chunks[e - 3])
          /\ gate_chunks[e - 2] = speech_threshold

\* the seven chunks [0, 0, 0.9, 0.9, 0, 0, 0] were fed to a gate with a ring
\* of two chunks (ring_buffer_ms=64 at 32 ms a chunk) and a hangover of two
ScenarioFed ==
    /\ gate_chunks = <<0, 0, 9, 9, 0, 0, 0>>
    /\ hangover_chunks = 2
    /\ ring_buffer.capacity_samples = 2 * chunk_samples
CallsOf(type) == {gate_events[i].call : i \in EventCalls(type)}
ScenarioStart ==
    /\ Cardinality(EventCalls("SpeechStart")) = 1
    /\ \A i \in EventCalls("SpeechStart") :
          /\ gate_events[i].call = 3
          /\ gate_events[i].pre_roll = Chunk(1) \o Chunk(2)
    /\ \A i \in DOMAIN gate_events : gate_events[i].utterance_id = 1

\* C26: fed [0, 0, 0.9, 0.9, 0, 0, 0] with threshold 0.5 and a hangover of
\* two chunks, the gate has emitted one SpeechStart on chunk 3 whose pre-roll
\* is chunks 1 and 2, exactly two SpeechChunk events, and one SpeechEnd on
\* chunk 5, all with the same utterance id.
C26_Scenario ==
    ScenarioFed =>
        /\ ScenarioStart
        /\ Cardinality(EventCalls("SpeechChunk")) = 2
        /\ Cardinality(EventCalls("SpeechEnd")) = 1
        /\ CallsOf("SpeechEnd") = {5}

\* C26, amended: chunks counted from 1, the gate has emitted one SpeechStart
\* on chunk 3 whose pre-roll is chunks 1 and 2, three SpeechChunk events (on
\* chunks 4, 5 and 6), and one SpeechEnd on chunk 6, the second chunk below
\* the threshold after the speech, all with the same utterance id; chunk 7
\* yields no event.
C26_ScenarioAmended ==
    ScenarioFed =>
        /\ ScenarioStart
        /\ Cardinality(EventCalls("SpeechChunk")) = 3
        /\ CallsOf("SpeechChunk") = {4, 5, 6}
        /\ Cardinality(EventCalls("SpeechEnd")) = 1
        /\ CallsOf("SpeechEnd") = {6}
        /\ Len(gate_events) = 5
        /\ gate_events[5].type = "SpeechEnd"

\* the seven chunks of the scenario were fed and the gate is at rest again
C26_Witness == ScenarioFed /\ ~gate_in_speech /\ Len(gate_events) > 0

\* the audio of the first n chunks passed to process_chunk
AudioFed(n) == Samples(0, n * chunk_samples)

\* C27: the pre_roll of every SpeechStart, of the first utterance and of
\* every later one, is the last ring-capacity samples of the audio passed to
\* process_chunk before the triggering chunk (all of it when less was fed),
\* in order and without the triggering chunk, whatever the ring's capacity.
C27_PreRoll ==
    \A i \in EventCalls("SpeechStart") :
        gate_events[i].pre_roll =
            LastN(AudioFed(gate_events[i].call - 1), ring_buffer.capacity_samples)

(***************************************************************************)
(* Claims about the ring buffer                                            *)
(***************************************************************************)
\* C28: after appends totalling k samples, with any capacity and any append
\* sizes, get_last_samples(n) returns the last min(n, k, capacity) samples
\* appended, in the order they were appended.
C28_LastSamples ==
    LET k == ring_got.appended
    IN  ring_got.result =
            LastN(FirstN(ring_appended, k),
                  Min2(ring_got.count, Min2(k, ring_buffer.capacity_samples)))

(***************************************************************************)
(* Claims about the context memory                                         *)
(***************************************************************************)
\* C29: every entry of the context computed for a translation is among the
\* last context_max_entries of the history, is no older than
\* context_time_window_s, was made with the hub's current source and target
\* language, and has a text of at least 2 characters.
C29_ContextPolicy ==
    \A i \in DOMAIN llm_context.context :
        LET entry == llm_context.context[i]
        IN  /\ entry \in Range(LastN(llm_context.history, context_max_entries))
            /\ llm_context.now - entry.timestamp <= context_time_window_s
            /\ entry.source_language = llm_context.source_language
            /\ entry.target_language = llm_context.target_language
            /\ Len(entry.text) >= 2

(***************************************************************************)
(* Claims about the bridging reset                                         *)
(***************************************************************************)
\* the step in which _reset_with_bridging gets its new session and sets the
\* state, and any step of a bridging reset after the one that starts it
\* (which belongs to the handler that calls _maybe_reset)
ResetOpens == \E r \in DOMAIN resets : ~resets[r].opened /\ resets'[r].opened
ResetSteps == \E r \in DOMAIN resets : resets'[r] # resets[r]

\* C30: a bridging reset leaves the state at STREAMING without emitting an
\* STTSessionStateEvent, and no step of it changes active_utterance_id or
\* pending_final_utterance_id.
C30_BridgingFrame ==
    [][/\ ResetOpens => state = "STREAMING" /\ state' = "STREAMING" /\ events' = events
       /\ ResetSteps => /\ active_utterance_id' = active_utterance_id
                        /\ pending_final_utterance_id' = pending_final_utterance_id]_vars

(***************************************************************************)
(* Claims about the controller, continued                                  *)
(***************************************************************************)
\* the step is the consumer's handling of one backend transcript event
ConsumerStep == backend_events' # backend_events

\* C31: the consumer tags each backend transcript event with
\* active_utterance_id if it is set, otherwise with
\* pending_final_utterance_id, and drops the event if neither is set; a
\* final event clears pending_final_utterance_id only when it was tagged
\* with that id and no utterance is active.
C31_Correlation ==
    [][ConsumerStep =>
         LET id == IF active_utterance_id # None THEN active_utterance_id
                   ELSE pending_final_utterance_id
             last == events'[Len(events')]
         IN  IF id = None
             THEN /\ events' = events
                  /\ pending_final_utterance_id' = pending_final_utterance_id
             ELSE /\ Len(events') = Len(events) + 1
                  /\ SubSeq(events', 1, Len(events)) = events
                  /\ last.type \in {"final", "partial"}
                  /\ last.id = id
                  /\ pending_final_utterance_id' =
                        IF /\ last.type = "final"
                           /\ active_utterance_id = None
                           /\ id = pending_final_utterance_id
                        THEN None
                        ELSE pending_final_utterance_id]_vars

\* after the end of an utterance a final was tagged with the pending id and
\* has cleared it, and an event that came with neither id set was dropped
C31_Witness ==
    /\ utterances >= 1 /\ in_speech = None
    /\ active_utterance_id = None /\ pending_final_utterance_id = None
    /\ \E i \in DOMAIN events : events[i].type = "final" /\ events[i].id = utterances
    /\ backend_events > Cardinality({i \in DOMAIN events :
                                        events[i].type \in {"final", "partial"}})

\* session s was given to _drain_and_close and no task is running that
\* call any more
DrainOver(s) ==
    /\ sessions[s].drain_started
    /\ \A d \in DOMAIN drains :
          drains[d].session = s => drains[d].pc \in {"done", "aborted", "cancelled"}
    /\ ~(vad.pc \in {"silence_stop", "silence_wait", "silence_close"} /\ vad.old_session = s)
    /\ ~(timer.pc \in {"stop", "wait", "close"} /\ timer.old_session = s)

\* C32: draining a session waits for its consumer at most drain_timeout_s
\* and cancels it if it has not finished; whether the consumer finished or
\* timed out, once _drain_and_close is over the session's close() has been
\* called and its consumer is not running.
C32_DrainCloses ==
    \A s \in DOMAIN sessions :
        DrainOver(s) => sessions[s].closed /\ sessions[s].consumer # "running"

\* the samples session s receives in this step
Received(s) ==
    Range(sessions'[s].audio) \
        (IF s \in DOMAIN sessions THEN Range(sessions[s].audio) ELSE {})

\* C33: every sample sent to a session, pre-roll and chunks alike, was
\* appended to the bridging ring, and was appended before it was sent.
C33_SentIsInRing ==
    [][\A s \in DOMAIN sessions' : Received(s) \subseteq Range(fed)]_vars

\* a session has received a pre-roll and a chunk, and a later chunk too
C33_Witness ==
    \E s \in DOMAIN sessions :
        /\ Len(sessions[s].audio) > SamplesPerCall
        /\ Range(sessions[s].audio) \subseteq Range(fed)

(***************************************************************************)
(* Claims about the hub, continued                                         *)
(***************************************************************************)
\* the messages the hub has passed to osc.enqueue for an utterance id
EnqueuedFor(id) == {i \in 1..Len(enqueued) : enqueued[i].utterance_id = id}

\* C34: for each utterance id at most one OSC chatbox message is enqueued,
\* however many final transcripts are received for the id, with translation
\* enabled or disabled.
C34_OneMessagePerId ==
    \A id \in HubIds : Cardinality(EnqueuedFor(id)) <= 1

(***************************************************************************)
(* Claims about the sessions of the controller                             *)
(***************************************************************************)
\* a drain task of the draining set holds session s and is on its way to
\* stop and close it
DrainOwns(s) ==
    \E d \in draining : drains[d].session = s /\ drains[d].pc \in {"stop", "wait", "close"}

\* a reset in progress holds session s in a local variable: a bridging reset
\* of handle_vad_event that has not yet created the drain task, or a silence
\* reset (of handle_vad_event or of the timer) inside its own _drain_and_close
ResetHolds(s) ==
    \/ vad.pc \in {"bridge_send", "silence_stop", "silence_wait", "silence_close"}
         /\ vad.old_session = s
    \/ timer.pc \in {"stop", "wait", "close"} /\ timer.old_session = s

\* C35: every session that was opened and is not closed is the active
\* session, or is owned by a task of the draining set that will stop and
\* close it, or is held by the reset that is handing it over, whichever path
\* did the reset.
C35_NoOrphan ==
    \A s \in DOMAIN sessions :
        ~sessions[s].closed => (s = active_session \/ DrainOwns(s) \/ ResetHolds(s))

\* the bridging resets that opened a replacement for session s, and the
\* drains that were started for s
ReplacementsOf(s) == {r \in DOMAIN resets : resets[r].old = s /\ resets[r].opened}
DrainsOf(s) == {d \in DOMAIN drains : drains[d].session = s}

\* C36: one expired session is reset at most once: at most one replacement
\* session is opened for it and at most one _drain_and_close stops and
\* closes it, also when the timer's reset and the deadline check of a VAD
\* event overlap.
C36_OneResetPerSession ==
    \A s \in DOMAIN sessions :
        Cardinality(ReplacementsOf(s)) <= 1 /\ Cardinality(DrainsOf(s)) <= 1

\* no handle_vad_event call, no reset of the timer task and no close() is
\* in progress
Quiescent ==
    /\ vad.pc = "idle"
    /\ timer.pc \in {"none", "sleep", "done"}
    /\ closer.pc \in {"none", "returned"}

\* C37: whenever the controller is quiescent, the state is Streaming exactly
\* when there is an active session and Disconnected exactly when there is
\* none.
C37_StateMatchesSession ==
    Quiescent =>
        /\ (state = "STREAMING" <=> active_session # None)
        /\ (state = "DISCONNECTED" <=> active_session = None)

(***************************************************************************)
(* Claims about the correlation of transcripts                             *)
(***************************************************************************)
\* the SpeechStart of utterance id is being handled and session s has been
\* sent none of its audio yet: s has received audio, and every sample of it
\* is older than the pre-roll of that SpeechStart, so what s transcribes is
\* audio of an earlier utterance
HasNoAudioOf(s, id) ==
    /\ vad.ev.type = "start" /\ vad.ev.id = id
    /\ sessions[s].audio # <<>>
    /\ \A k \in Range(sessions[s].audio) : k < vad.ev.pre[1]

\* C38: a final transcript is never tagged with the id of an utterance that
\* started after the audio it transcribes: the session that yields a final
\* tagged B has been sent audio of B, also when SpeechStart(B) is handled
\* before a final of the earlier utterance A is delivered.
C38_NoLateAttribution ==
    [][\A s \in 1..MaxSessions :
          (ConsumeEvent(s, TRUE, <<"t">>) /\ events' # events) =>
              ~HasNoAudioOf(s, LastEvent(events').id)]_vars

\* the transcript events a step puts on the controller's stream
NewTranscripts ==
    {i \in (Len(events) + 1)..Len(events') : events'[i].type \in {"partial", "final"}}

\* C39: once close() has returned, active_utterance_id and
\* pending_final_utterance_id are unset, so that no session opened after it
\* (by warmup) puts a transcript event with the id of an utterance from
\* before the close.
C39_CloseResetsCorrelation ==
    /\ [](closer.pc = "returned" =>
            active_utterance_id = None /\ pending_final_utterance_id = None)
    /\ [][closer.pc = "returned" => NewTranscripts = {}]_vars

(***************************************************************************)
(* Claims about the OSC_SENT event                                         *)
(***************************************************************************)
\* a send_chatbox call that returned was made for the message of this
\* utterance id and text (alone or combined with other pending messages)
PassedToSendChatbox(id, text) ==
    \E k \in 1..Len(sent) :
        /\ sent[k].ok
        /\ \E j \in 1..Len(sent[k].batch) :
             sent[k].batch[j].utterance_id = id /\ sent[k].batch[j].text = text

\* C40: an OSC_SENT UI event for a message is on the UI stream only if the
\* text of the message has been passed to send_chatbox: not for a message
\* that is waiting behind the cooldown, nor for one whose send raised.
C40_SentMeansSent ==
    \A i \in 1..Len(ui_events) :
        ui_events[i].type = "OSC_SENT" =>
            PassedToSendChatbox(ui_events[i].utterance_id, ui_events[i].text)

====
